---- MODULE Spec2Model ----
(***************************************************************************)
(* AgenticOS: the mentions ingestion/reply engine (src/jobs/mentions.job.ts *)
(* with its manual trigger in src/routes/mention.route.ts) and the          *)
(* rate-limited client (src/services/twitter.service.ts).                   *)
(*                                                                          *)
(* src/jobs/mentions.job.ts holds two revisions of the job: lines 1-167     *)
(* (rev = 1) and lines 169-350 (rev = 2).  The variable rev says which one  *)
(* is deployed; it is chosen in Init and never changes.                     *)
(***************************************************************************)
EXTENDS Integers, Sequences, FiniteSets, TLC

----------------------------------------------------------------------------
(* Bounds of the model *)

\* mentions the remote ever receives
MaxMentions == 3
\* runMentionsOnce invocations that can be in flight at the same time
MaxRuns == 2
\* how many times a cycle starts while another one is still in flight
MaxOverlaps == 1
\* how many times the clock advances
MaxTicks == 1
\* successful replies counted per mention (the counter saturates here)
MaxReplies == 2
\* token generations the token endpoint issues
MaxIssued == 3
\* authedRequest calls made
MaxCalls == 1

----------------------------------------------------------------------------
(* Program constants *)

MANUAL_COOLDOWN_MS == 60000
RATE_LIMIT_FALLBACK_MS == 120000
\* the cushion rev 2 adds in nextAllowedFromError
CUSHION_MS == 1500
\* isExpired: skewSeconds, and the ttl of a bundle that carries none
SKEW_SECONDS == 120
DEFAULT_TTL == 7200
\* requestWithRetry: the default retry budget, and the budget of the re-issue
DEFAULT_RETRIES == 2
REISSUE_RETRIES == 1
\* computeBackoffMsFromHeaders: cushion on x-rate-limit-reset, default wait,
\* range of the jitter
RESET_CUSHION_MS == 500
BACKOFF_DEFAULT_MS == 60000
JITTER_MS == 2000

----------------------------------------------------------------------------
(* Environment: clock, ids, response headers *)

\* Date.now() when the process starts (epoch ms, positive)
StartMs == 1000 * 1000
\* one clock step
TickMs == MANUAL_COOLDOWN_MS
\* ids are decimal numbers handed out in increasing order; the base is chosen
\* so that the ids cross a power of ten (9, 10, 11, ...), where the order of
\* the decimal strings differs from the numeric order
IdBase == 2 * 4
Ids == (IdBase + 1) .. (IdBase + MaxMentions)

\* a header that the response does not carry
NoHeader == 0 - 1
\* Retry-After (seconds)
RetryAfterValues == {NoHeader, 0, 30}
\* x-rate-limit-reset (unix seconds): absent, zero, a time after StartMs
ResetValues == {NoHeader, 0, (StartMs \div 1000) + 90}
Headers == [ra : RetryAfterValues, reset : ResetValues]

\* the bot's own account id, and the value of an absent state.me
SelfId == "me"
NoMe == ""

Runs == 1 .. MaxRuns

VARIABLES
  rev,       \* deployed revision of mentions.job.ts
  now,       \* Date.now()
  file,      \* mentions-state.json: [sinceId, nextAllowedAt, me, lastRunAt]; 0 = absent
  isRunning, \* mention.route.ts: let isRunning
  resp,      \* what the step just taken answered to POST /run ("none": it was no POST /run)
  mentions,  \* remote: id -> author ("none" = not posted yet)
  replies,   \* remote: id -> number of successful postReply
  runs,      \* the invocations of runMentionsOnce
  overlaps,  \* how many cycles have started beside a cycle in flight

  vault,     \* tokens.json, decrypted: [access_token, refresh_token, expires_in, created_at]
  issued,    \* the newest token generation the token endpoint has issued
  rq,        \* the authedRequest call in progress
  svc,       \* revision of twitter.service.ts: 1 = src/services/twitter.service.ts,
             \* 2 = the variant whose refreshAccessToken wraps the error
  bk,        \* the last call of computeBackoffMsFromHeaders: inputs and result
  au,        \* the OAuth handshake of auth.service.ts: [arev, store, urls, out, restarts]
  vt,        \* the token vault of encryption.ts: [erev, file, saved, out, writes]
  ck,        \* the checkpoint file under saveState, loadState and a stop of the process
  tk,        \* the tokens file and the remote during the refresh of getAccessToken
  cred,      \* the credentials seen from the job: reset, re-authorization, a dead refresh token
  cb,        \* GET /callback of auth.route.ts: [arev, vaulted, issued, calls, resp]
  fm,        \* fetchMentions: [pc, pages, pageToken, out, seen, result]
  sched,     \* startMentionsJob / stopMentionsJob: [job, active, made, calls, during, last]
  duo,       \* two concurrent authed calls: [rotates, gen, refresh, issuedN, accepted, call]
  tj,        \* tweet.job.ts: [map, active, made, tokensOk, pc, latest, guard, calls, flips]
  pace       \* pacing of POST /2/tweets: [lastPostAt, sends, call]

ingVars == <<rev, now, file, isRunning, resp, mentions, replies, runs, overlaps>>
reqVars == <<vault, issued, rq, svc>>
\* the variables of the parts that are specified on their own
aloneVars == <<bk, au, vt, ck, tk, cred, cb, fm, sched, duo, tj, pace>>

----------------------------------------------------------------------------
(* Persisted state and reports *)

EmptyState == [sinceId |-> 0, nextAllowedAt |-> 0, me |-> NoMe, lastRunAt |-> 0]

NoReport == [handled |-> 0, lastId |-> 0, skipped |-> "unset", nextAllowedAt |-> 0, waitMs |-> 0]

Report(h, l, s, n, w) ==
  [handled |-> h, lastId |-> l, skipped |-> s, nextAllowedAt |-> n, waitMs |-> w]

IdleRun ==
  [pc |-> "idle", manual |-> FALSE, st |-> EmptyState, fetched |-> {},
   since0 |-> 0, batch |-> <<>>, i |-> 0, lastId |-> 0, handled |-> 0, good |-> 0,
   attempted |-> <<>>, net |-> FALSE, solo |-> TRUE,
   hdr |-> [ra |-> NoHeader, reset |-> NoHeader], report |-> NoReport]

\* The fields of an invocation: pc (where it awaits), manual (opts.manual),
\* st (its local "state" object), batch, i (index of the batch item whose
\* postReply is awaited), lastId (rev 1: lastId, rev 2: lastSuccessfulId),
\* handled, report (the value it returns), hdr (response headers of the 429 it
\* caught).  The other fields record what happened, for the properties:
\* since0 (the sinceId it loaded), fetched (the ids fetchMentions returned),
\* attempted (the ids it called postReply for), good (the last batch item it
\* replied to or passed over as self-authored), net (it made a network call),
\* solo (no other cycle has been in flight since it started).

\* a cycle that has started and has not returned yet
InFlight(r) == runs[r].pc \in {"selfid", "fetch", "reply"}

\* no invocation has returned and is about to settle in its caller.  The
\* caller's continuation (the cron callback's log, the manual runner's
\* finally block) is a microtask of the same turn of the event loop, so no
\* timer, request or network callback runs between a return and its Settle.
Quiet == \A q \in Runs : runs[q].pc # "returned"

\* GET /status: the "running" member of the answer is the route's isRunning
StatusRunning == isRunning

----------------------------------------------------------------------------
(* Pure helpers of the job *)

MAX_REPLIES_PER_CYCLE == IF rev = 1 THEN 2 ELSE 1

\* (mutant) the backoff comparison turned round
BackoffActive_Reversed(s, t) == s.nextAllowedAt # 0 /\ t > s.nextAllowedAt

\* state.nextAllowedAt && Date.now() < state.nextAllowedAt
BackoffActive(s, t) == s.nextAllowedAt # 0 /\ t < s.nextAllowedAt

\* (mutant) the cooldown applied to every caller, cron included
CooldownActive_AnyCaller(manual, s, t) ==
  s.lastRunAt # 0 /\ t - s.lastRunAt < MANUAL_COOLDOWN_MS

\* manual && state.lastRunAt && Date.now() - state.lastRunAt < MANUAL_COOLDOWN_MS
CooldownActive(manual, s, t) ==
  manual /\ s.lastRunAt # 0 /\ t - s.lastRunAt < MANUAL_COOLDOWN_MS

\* nextAllowedFromError(err), with Date.now() = t and the headers h of the 429
nextAllowedFromError(h, t) ==
  IF rev = 1
  THEN t + (IF h.ra # NoHeader THEN h.ra * 1000 ELSE RATE_LIMIT_FALLBACK_MS)
  ELSE IF h.ra # NoHeader
       THEN t + h.ra * 1000 + CUSHION_MS
       ELSE IF h.reset # NoHeader /\ h.reset * 1000 - t + CUSHION_MS > 0
            THEN t + (h.reset * 1000 - t + CUSHION_MS)
            ELSE t + RATE_LIMIT_FALLBACK_MS

\* the decimal digits of n, most significant first
RECURSIVE Digits(_)
Digits(n) == IF n < 10 THEN <<n>> ELSE Append(Digits(n \div 10), n % 10)

\* s before t in the order of strings
RECURSIVE LexLess(_, _)
LexLess(s, t) ==
  IF t = <<>> THEN FALSE
  ELSE IF s = <<>> THEN TRUE
  ELSE IF Head(s) # Head(t) THEN Head(s) < Head(t)
  ELSE LexLess(Tail(s), Tail(t))

\* (mutant) the ids compared as strings: a.id < b.id
StringLess(a, b) == LexLess(Digits(a), Digits(b))

\* BigInt(a.id) < BigInt(b.id)
BigIntLess(a, b) == a < b

\* mentions.sort((a, b) => (BigInt(a.id) < BigInt(b.id) ? -1 : 1)) on the
\* items of the response: the sequence of S in the order of BigIntLess
RECURSIVE SortById(_)
SortById(S) ==
  IF S = {} THEN <<>>
  ELSE LET m == CHOOSE x \in S : \A y \in S \ {x} : BigIntLess(x, y)
       IN <<m>> \o SortById(S \ {m})

\* mentions.slice(0, MAX_REPLIES_PER_CYCLE)
Slice(q, n) == SubSeq(q, 1, IF Len(q) < n THEN Len(q) ELSE n)

\* (mutant) the for-loop without the author check: the loop stops at every
\* item, self-authored or not, and awaits a postReply for it
LoopFrom_NoAuthorCheck(me, batch, k, lid, gd) ==
  IF k > Len(batch) THEN [i |-> k, lastId |-> lid, good |-> gd]
  ELSE [i |-> k, lastId |-> IF rev = 1 THEN batch[k] ELSE lid, good |-> gd]

\* The synchronous part of the for-loop from batch index k: items authored by
\* the bot are passed over (both revisions move their id variable to the
\* item), and the loop stops at the first item that needs a postReply, or at
\* the end of the batch.  rev 1 assigns lastId = m.id before it looks at the
\* author; rev 2 assigns lastSuccessfulId only for self-authored items here.
RECURSIVE LoopFrom(_, _, _, _, _)
LoopFrom(me, batch, k, lid, gd) ==
  IF k > Len(batch) THEN [i |-> k, lastId |-> lid, good |-> gd]
  ELSE IF mentions[batch[k]] = me
       THEN LoopFrom(me, batch, k + 1, batch[k], batch[k])
       ELSE [i |-> k, lastId |-> IF rev = 1 THEN batch[k] ELSE lid, good |-> gd]

----------------------------------------------------------------------------
(* runMentionsOnce, cut at its await points *)

\* the other invocations lose "solo" when invocation r starts beside them
OthersNotSolo(r) ==
  [q \in Runs |-> IF q # r /\ InFlight(q) THEN [runs[q] EXCEPT !.solo = FALSE] ELSE runs[q]]

\* the lowest free slot
FreeRun(r) == runs[r].pc = "idle" /\ \A q \in Runs : q < r => runs[q].pc # "idle"

\* a cycle may start beside a cycle in flight MaxOverlaps times
Overlap ==
  IF \A q \in Runs : ~InFlight(q)
  THEN overlaps' = overlaps
  ELSE overlaps < MaxOverlaps /\ overlaps' = overlaps + 1

\* runMentionsOnce from its entry to its first await: loadState, the backoff
\* check, the manual cooldown check, then the first network call
Begin(manual, s, t, alone) ==
  IF BackoffActive(s, t)
  THEN [IdleRun EXCEPT !.pc = "returned", !.manual = manual, !.st = s, !.since0 = s.sinceId, !.solo = alone,
          !.report = Report(0, s.sinceId, "backoff_active", s.nextAllowedAt, s.nextAllowedAt - t)]
  ELSE IF CooldownActive(manual, s, t)
  THEN [IdleRun EXCEPT !.pc = "returned", !.manual = manual, !.st = s, !.since0 = s.sinceId, !.solo = alone,
          !.report = Report(0, s.sinceId, "manual_cooldown", 0, MANUAL_COOLDOWN_MS - (t - s.lastRunAt))]
  ELSE [IdleRun EXCEPT !.pc = IF s.me = NoMe THEN "selfid" ELSE "fetch",
          !.manual = manual, !.st = s, !.since0 = s.sinceId, !.solo = alone, !.net = TRUE]

\* the end of the for-loop body: either the next postReply is awaited, or the
\* loop is over and the checkpoint is written (state.sinceId = lastId;
\* state.lastRunAt = Date.now(); saveState(state))
AfterLoop(R, L, t) ==
  IF L.i > Len(R.batch)
  THEN [R EXCEPT !.pc = "returned", !.i = L.i, !.lastId = L.lastId, !.good = L.good,
          !.st = [R.st EXCEPT !.sinceId = L.lastId, !.lastRunAt = t],
          !.report = Report(R.handled, L.lastId, "none", 0, 0)]
  ELSE [R EXCEPT !.pc = "reply", !.i = L.i, !.lastId = L.lastId, !.good = L.good,
          !.attempted = Append(R.attempted, R.batch[L.i])]

\* (mutant) the outer catch saving the state object the cycle loaded at its
\* start instead of a freshly loaded one
CatchOuter_SavesLocal(R, kind, h, s2, t) ==
  IF kind = "429"
  THEN LET next == nextAllowedFromError(h, t)
       IN [run |-> [R EXCEPT !.pc = "returned", !.hdr = h,
                       !.report = Report(0, R.st.sinceId, "rate_limited", next, 0)],
           save |-> [R.st EXCEPT !.nextAllowedAt = next, !.lastRunAt = t]]
  ELSE [run |-> [R EXCEPT !.pc = "returned", !.report = Report(0, 0, "error", 0, 0)],
        save |-> s2]

\* the outer catch: a 429 from getSelfUserId or fetchMentions persists a
\* backoff on a freshly loaded state; any other error returns { handled: 0 }
CatchOuter(R, kind, h, s2, t) ==
  IF kind = "429"
  THEN LET next == nextAllowedFromError(h, t)
       IN [run |-> [R EXCEPT !.pc = "returned", !.hdr = h,
                       !.report = Report(0, s2.sinceId, "rate_limited", next, 0)],
           save |-> [s2 EXCEPT !.nextAllowedAt = next, !.lastRunAt = t]]
  ELSE [run |-> [R EXCEPT !.pc = "returned", !.report = Report(0, 0, "error", 0, 0)],
        save |-> s2]

\* the inner catch of postReply on a 429: persist the backoff and stop the cycle
ReplyRateLimited(R, h, t) ==
  LET next == nextAllowedFromError(h, t)
      st1 == [R.st EXCEPT !.nextAllowedAt = next, !.lastRunAt = t]
  IN [R EXCEPT !.pc = "returned", !.hdr = h,
        !.st = IF rev = 1 THEN [st1 EXCEPT !.sinceId = R.lastId] ELSE st1,
        !.report = Report(R.handled, R.lastId, "rate_limited", next, 0)]

\* postReply resolved: handled++ (rev 2 also: lastSuccessfulId = m.id)
ReplySucceeded(R) ==
  [R EXCEPT !.handled = @ + 1,
            !.lastId = IF rev = 1 THEN @ ELSE R.batch[R.i],
            !.good = R.batch[R.i]]

----------------------------------------------------------------------------
(* Actions *)

\* node-cron fires the scheduled callback: await runMentionsOnce()
CronTick ==
  \E r \in Runs :
    /\ FreeRun(r)
    /\ Overlap
    /\ runs' = [OthersNotSolo(r) EXCEPT
                  ![r] = Begin(FALSE, file, now, \A q \in Runs : ~InFlight(q))]
    /\ resp' = "none"
    /\ UNCHANGED <<rev, now, file, isRunning, mentions, replies>>

\* POST /run while isRunning: 429 runner_busy
PostRunBusy ==
  /\ isRunning
  /\ resp' = "runner_busy"
  /\ UNCHANGED <<rev, now, file, isRunning, mentions, replies, runs, overlaps>>

\* POST /run accepted: isRunning = true, the cycle starts in the background
\* (it runs to its first await before the handler answers), 202 started
PostRunStart ==
  \E r \in Runs :
    /\ ~isRunning
    /\ FreeRun(r)
    /\ Overlap
    /\ isRunning' = TRUE
    /\ runs' = [OthersNotSolo(r) EXCEPT
                  ![r] = Begin(TRUE, file, now, \A q \in Runs : ~InFlight(q))]
    /\ resp' = "started"
    /\ UNCHANGED <<rev, now, file, mentions, replies>>

\* getSelfUserId resolved: state.me = me; saveState(state)
SelfIdOk(r) ==
  /\ Quiet
  /\ runs[r].pc = "selfid"
  /\ LET st1 == [runs[r].st EXCEPT !.me = SelfId]
     IN /\ runs' = [runs EXCEPT ![r] = [@ EXCEPT !.st = st1, !.pc = "fetch"]]
        /\ file' = st1
  /\ resp' = "none"
  /\ UNCHANGED <<rev, now, isRunning, mentions, replies, overlaps>>

\* getSelfUserId rejected
SelfIdFail(r, kind, h) ==
  /\ Quiet
  /\ runs[r].pc = "selfid"
  /\ LET c == CatchOuter(runs[r], kind, h, file, now)
     IN /\ runs' = [runs EXCEPT ![r] = c.run]
        /\ file' = c.save
  /\ resp' = "none"
  /\ UNCHANGED <<rev, now, isRunning, mentions, replies, overlaps>>

\* fetchMentions(me, state.sinceId) resolved with the mentions above sinceId
FetchOk(r) ==
  /\ Quiet
  /\ runs[r].pc = "fetch"
  /\ LET R == runs[r]
         items == {m \in Ids : mentions[m] # "none" /\ m > R.st.sinceId}
     IN IF items = {}
        THEN LET st1 == [R.st EXCEPT !.lastRunAt = now]
             IN /\ runs' = [runs EXCEPT ![r] =
                              [R EXCEPT !.pc = "returned", !.st = st1,
                                 !.report = Report(0, R.st.sinceId, "none", 0, 0)]]
                /\ file' = st1
        ELSE LET batch == Slice(SortById(items), MAX_REPLIES_PER_CYCLE)
                 R1 == [R EXCEPT !.fetched = items, !.batch = batch]
                 R2 == AfterLoop(R1, LoopFrom(R.st.me, batch, 1, R.st.sinceId, 0), now)
             IN /\ runs' = [runs EXCEPT ![r] = R2]
                /\ file' = IF R2.pc = "returned" THEN R2.st ELSE file
  /\ resp' = "none"
  /\ UNCHANGED <<rev, now, isRunning, mentions, replies, overlaps>>

\* fetchMentions rejected
FetchFail(r, kind, h) ==
  /\ Quiet
  /\ runs[r].pc = "fetch"
  /\ LET c == CatchOuter(runs[r], kind, h, file, now)
     IN /\ runs' = [runs EXCEPT ![r] = c.run]
        /\ file' = c.save
  /\ resp' = "none"
  /\ UNCHANGED <<rev, now, isRunning, mentions, replies, overlaps>>

\* postReply(reply, m.id) resolved: the remote has the reply
ReplyOk(r) ==
  /\ Quiet
  /\ runs[r].pc = "reply"
  /\ LET R == ReplySucceeded(runs[r])
         m == R.batch[R.i]
         R2 == AfterLoop(R, LoopFrom(R.st.me, R.batch, R.i + 1, R.lastId, R.good), now)
     IN /\ replies' = [replies EXCEPT ![m] = IF @ < MaxReplies THEN @ + 1 ELSE @]
        /\ runs' = [runs EXCEPT ![r] = R2]
        /\ file' = IF R2.pc = "returned" THEN R2.st ELSE file
  /\ resp' = "none"
  /\ UNCHANGED <<rev, now, isRunning, mentions, overlaps>>

\* postReply rejected with 429 carrying the headers h
Reply429(r, h) ==
  /\ Quiet
  /\ runs[r].pc = "reply"
  /\ LET R2 == ReplyRateLimited(runs[r], h, now)
     IN /\ runs' = [runs EXCEPT ![r] = R2]
        /\ file' = R2.st
  /\ resp' = "none"
  /\ UNCHANGED <<rev, now, isRunning, mentions, replies, overlaps>>

\* postReply rejected with another error: logged, the loop goes on
ReplyErr(r) ==
  /\ Quiet
  /\ runs[r].pc = "reply"
  /\ LET R == runs[r]
         R2 == AfterLoop(R, LoopFrom(R.st.me, R.batch, R.i + 1, R.lastId, R.good), now)
     IN /\ runs' = [runs EXCEPT ![r] = R2]
        /\ file' = IF R2.pc = "returned" THEN R2.st ELSE file
  /\ resp' = "none"
  /\ UNCHANGED <<rev, now, isRunning, mentions, replies, overlaps>>

\* (mutant) the manual runner without its finally block
Settle_NoFinally(r) ==
  /\ runs[r].pc = "returned"
  /\ runs' = [runs EXCEPT ![r] = IdleRun]
  /\ isRunning' = isRunning
  /\ resp' = "none"
  /\ UNCHANGED <<rev, now, file, mentions, replies, overlaps>>

\* the promise of runMentionsOnce settles in its caller: the cron callback
\* logs; the manual runner's finally block clears isRunning
Settle(r) ==
  /\ runs[r].pc = "returned"
  /\ runs' = [runs EXCEPT ![r] = IdleRun]
  /\ isRunning' = IF runs[r].manual THEN FALSE ELSE isRunning
  /\ resp' = "none"
  /\ UNCHANGED <<rev, now, file, mentions, replies, overlaps>>

\* somebody (author a) mentions the bot: the next id is handed out
NewMention(a) ==
  \E m \in Ids :
    /\ mentions[m] = "none"
    /\ \A x \in Ids : x < m => mentions[x] # "none"
    /\ mentions' = [mentions EXCEPT ![m] = a]
    /\ resp' = "none"
    /\ UNCHANGED <<rev, now, file, isRunning, replies, runs, overlaps>>

\* the clock advances
Tick ==
  /\ now + TickMs <= StartMs + MaxTicks * TickMs
  /\ now' = now + TickMs
  /\ resp' = "none"
  /\ UNCHANGED <<rev, file, isRunning, mentions, replies, runs, overlaps>>

\* a complete bundle that is not about to expire
FreshVault == [access_token |-> 1, refresh_token |-> 1, expires_in |-> DEFAULT_TTL, created_at |-> StartMs]

\* no authedRequest call has been made
NoCall ==
  [pc |-> "idle", ph |-> 0, token |-> 0, attempt |-> 0, retries |-> 0,
   fresh |-> [accessToken |-> 0, refreshToken |-> 0, expiresIn |-> 0],
   result |-> "none", log |-> <<>>,
   n |-> 0, t0 |-> 0, v0 |-> FreshVault, sentAt |-> 0, limit |-> 0, wakeAt |-> 0]

\* one segment of a state value (the pieces between the dots).  kind is "p"
\* for the base64url of a payload {v, cv, t}, "s" for the base64url of the
\* HMAC-SHA256 under `key` of the payload {v, cv, t}, "nonce" for the random
\* state of revision 1, "junk" for anything else, "empty" for nothing.
Seg(kind, v, cv, t, key) == [kind |-> kind, v |-> v, cv |-> cv, t |-> t, key |-> key]

\* the handshake before any getAuthUrl or handleCallback
NoOutcome == [state |-> <<>>, at |-> 0, res |-> "none", cv |-> "", sent |-> FALSE]
NoAuth == [arev |-> 1, store |-> {}, urls |-> {}, out |-> NoOutcome, restarts |-> 0]

\* an optional string / number that is undefined
Undefined == "<undefined>"
UndefinedNum == -1

\* a token bundle (TwitterTokens)
Bundle(at, rt, tt, ei, ca) ==
  [access_token |-> at, refresh_token |-> rt, token_type |-> tt, expires_in |-> ei, created_at |-> ca]
NoBundle == Bundle(Undefined, Undefined, Undefined, UndefinedNum, UndefinedNum)

\* the text JSON.stringify gives: for each property, whether it is written
\* and its value
NoText == [f \in {"access_token", "refresh_token", "token_type"} |-> [has |-> FALSE, val |-> Undefined]]
           @@ [f \in {"expires_in", "created_at"} |-> [has |-> FALSE, val |-> UndefinedNum]]

\* an AES-GCM ciphertext: what was encrypted, under the key derived from
\* which passphrase and salt, with which iv
Cipher(pass, salt, iv, pt) == [pass |-> pass, salt |-> salt, iv |-> iv, pt |-> pt]
NoCipher == Cipher("", "", "", NoText)

\* the tokens file.  kind is "none" (no file), "blob" (a JSON object with
\* salt, iv and ciphertext; fmt 1 names them version/salt/iv/ciphertext, fmt 2
\* iv/salt/data), "plain" (a JSON object with accessToken and refreshToken in
\* the clear, its text in ct.pt) or "garbage" (not JSON)
TokensFile(kind, fmt, salt, iv, ct) == [kind |-> kind, fmt |-> fmt, salt |-> salt, iv |-> iv, ct |-> ct]
NoFile == TokensFile("none", 0, "", "", NoCipher)

\* the vault before any saveTokens or loadTokens
NoLoad == [res |-> "none", bundle |-> NoBundle, pass |-> ""]
NoSave == [done |-> FALSE, bundle |-> NoBundle, pass |-> ""]
NoVault == [erev |-> 1, file |-> NoFile, saved |-> NoSave, out |-> NoLoad, writes |-> 0]

\* the checkpoint file before the job has written it: no file
NoCheckpoint ==
  [pc |-> "idle", exists |-> FALSE, disk |-> <<>>, text |-> <<>>,
   prev |-> EmptyState, next |-> EmptyState,
   loaded |-> [done |-> FALSE, s |-> EmptyState], saves |-> 0, crashes |-> 0]

\* a pair of tokens: the generation of the access token and of the refresh token
Pair(a, r) == [access |-> a, refresh |-> r]

\* the text of the record saveTokens writes for pair b, in the pieces a write
\* can stop between
recordText(b) ==
  <<[tok |-> "{", body |-> Pair(0, 0)], [tok |-> "members", body |-> b],
    [tok |-> "}", body |-> Pair(0, 0)]>>

\* the tokens file and the remote before a refresh: the record of the first
\* pair is in the file, and the remote accepts its refresh token
NoRefresh ==
  [pc |-> "idle", disk |-> recordText(Pair(1, 1)), text |-> <<>>,
   prior |-> Pair(1, 1), fresh |-> Pair(1, 1), accepted |-> {1}, newest |-> 1,
   result |-> "none", crashes |-> 0]

\* the credentials as the job meets them: the bot is authorized, the remote
\* accepts the refresh token, nothing has failed and nothing was reset
NoReset ==
  [present |-> TRUE, dead |-> FALSE, failed |-> FALSE, contacted |-> FALSE,
   resets |-> 0, auths |-> 1, fresh |-> FALSE,
   first |-> [done |-> FALSE, sinceId |-> 0, me |-> NoMe]]

\* a response of GET /callback: status, the success flag and the message or
\* error text of the JSON body, and the tokens that appear in the body
Response(status, success, text, tokens) ==
  [status |-> status, success |-> success, text |-> text, tokens |-> tokens]

\* the callback route before any request: nothing vaulted, nothing issued
NoCallback ==
  [arev |-> 1, vaulted |-> 0, issued |-> 0, calls |-> 0,
   resp |-> Response(0, FALSE, "none", {})]

\* fetchMentions has just been called: out = [], pageToken undefined, pages = 0
NoFetch ==
  [pc |-> "loop", pages |-> 0, pageToken |-> "none", out |-> <<>>, seen |-> <<>>,
   result |-> <<>>]

\* the module variable job of mentions.job.ts is null and no cron task exists
NoJob ==
  [job |-> 0, active |-> {}, made |-> 0, calls |-> 0, during |-> {}, last |-> "none"]

\* a caller of authedRequest that has not started
NoCaller == [pc |-> "idle", why |-> "none", held |-> 0, fresh |-> 0, freshRefresh |-> 0, n |-> 0]

\* two callers idle, the vault holding the bundle of the authorization (bundle
\* 0, refresh token 0), which the remote accepts
NoDuo ==
  [rotates |-> TRUE, gen |-> 0, refresh |-> 0, issuedN |-> 0, accepted |-> {0},
   call |-> [c \in {"mentions", "tweet"} |-> NoCaller]]

\* the time slots of data/schedule.json
Slots == {"09:00", "18:00"}

\* tweet.job.ts after import: scheduledJobs empty, no cron task, no call of
\* scheduleTweets in progress, the tokens file present and decryptable
NoTweetJobs ==
  [map |-> [t \in Slots |-> 0], active |-> {}, made |-> 0, tokensOk |-> TRUE,
   pc |-> [c \in {1, 2} |-> "idle"], latest |-> 0, guard |-> "none", calls |-> 0,
   flips |-> 0]

\* the pacing state of the client after import (lastPostAt = 0), no caller
\* inside postTweet or postReply, no POST sent yet
NoPacing ==
  [lastPostAt |-> 0, sends |-> <<>>,
   call |-> [c \in {"mentions", "tweet"} |-> [pc |-> "idle", wake |-> 0, k |-> 0]]]

\* computeBackoffMsFromHeaders has not been called
NoBackoff == [n |-> 0, h |-> [ra |-> NoHeader, reset |-> NoHeader], t |-> 0, j |-> 0, wait |-> 0]

Init ==
  /\ rev \in {1, 2}
  /\ now = StartMs
  /\ file = EmptyState
  /\ isRunning = FALSE
  /\ resp = "none"
  /\ mentions = [m \in Ids |-> "none"]
  /\ replies = [m \in Ids |-> 0]
  /\ runs = [r \in Runs |-> IdleRun]
  /\ overlaps = 0
  /\ vault = FreshVault
  /\ issued = 1
  /\ rq = NoCall
  /\ svc = 1
  /\ bk = NoBackoff
  /\ au = NoAuth
  /\ vt = NoVault
  /\ ck = NoCheckpoint
  /\ tk = NoRefresh
  /\ cred = NoReset
  /\ cb = NoCallback
  /\ fm = NoFetch
  /\ sched = NoJob
  /\ duo = NoDuo
  /\ tj = NoTweetJobs
  /\ pace = NoPacing

Next ==
  \/ Quiet /\ CronTick /\ UNCHANGED <<reqVars, aloneVars>>
  \/ Quiet /\ PostRunBusy /\ UNCHANGED <<reqVars, aloneVars>>
  \/ Quiet /\ PostRunStart /\ UNCHANGED <<reqVars, aloneVars>>
  \/ \E r \in Runs : SelfIdOk(r) /\ UNCHANGED <<reqVars, aloneVars>>
  \/ \E r \in Runs, h \in Headers : SelfIdFail(r, "429", h) /\ UNCHANGED <<reqVars, aloneVars>>
  \/ \E r \in Runs : SelfIdFail(r, "err", [ra |-> NoHeader, reset |-> NoHeader]) /\ UNCHANGED <<reqVars, aloneVars>>
  \/ \E r \in Runs : FetchOk(r) /\ UNCHANGED <<reqVars, aloneVars>>
  \/ \E r \in Runs, h \in Headers : FetchFail(r, "429", h) /\ UNCHANGED <<reqVars, aloneVars>>
  \/ \E r \in Runs : FetchFail(r, "err", [ra |-> NoHeader, reset |-> NoHeader]) /\ UNCHANGED <<reqVars, aloneVars>>
  \/ \E r \in Runs : ReplyOk(r) /\ UNCHANGED <<reqVars, aloneVars>>
  \/ \E r \in Runs, h \in Headers : Reply429(r, h) /\ UNCHANGED <<reqVars, aloneVars>>
  \/ \E r \in Runs : ReplyErr(r) /\ UNCHANGED <<reqVars, aloneVars>>
  \/ \E r \in Runs : Settle(r) /\ UNCHANGED <<reqVars, aloneVars>>
  \/ Quiet /\ (\E a \in {SelfId, "other"} : NewMention(a)) /\ UNCHANGED <<reqVars, aloneVars>>
  \/ Quiet /\ Tick /\ UNCHANGED <<reqVars, aloneVars>>

vars == <<rev, now, file, isRunning, resp, mentions, replies, runs, overlaps, vault, issued, rq, svc, bk, au, vt, ck, tk, cred, cb, fm, sched, duo, tj, pace>>

Spec == Init /\ [][Next]_vars

----------------------------------------------------------------------------
(* The rate-limited client: authedRequest (src/services/twitter.service.ts) *)

\* a field that the bundle or the token response does not carry
Absent == 0 - 1
\* a short expires_in, below the skew of isExpired
ShortTtl == SKEW_SECONDS \div 2

\* headers of the API's 429 answers: none, or Retry-After: 30
ReqHeaders == {[ra |-> NoHeader, reset |-> NoHeader], [ra |-> 30, reset |-> NoHeader]}
\* values of Math.floor(Math.random() * 2000): the least and the greatest
JitterValues == {0, JITTER_MS - 1}

\* statuses the API answers a request with
ApiStatuses == {200, 401, 403, 429, 500}
\* statuses the token endpoint rejects a refresh with
TokenFailStatuses == {400, 401}

\* (mutant) the expiry test without the skew
isExpired_NoSkew(t, tnow) ==
  (tnow \div 1000) >= ((IF t.created_at = Absent THEN 0 ELSE t.created_at) \div 1000)
                       + (IF t.expires_in = Absent THEN DEFAULT_TTL ELSE t.expires_in)

isExpired(t, tnow) ==
  LET created == IF t.created_at = Absent THEN 0 ELSE t.created_at
      ttl == IF t.expires_in = Absent THEN DEFAULT_TTL ELSE t.expires_in
  IN (tnow \div 1000) >= (created \div 1000) + ttl - SKEW_SECONDS

\* The fields of a call: pc (where it awaits), ph (0: in getAccessToken,
\* 1: first requestWithRetry, 2: catch block), token (the bearer token of the
\* request), attempt and retries (requestWithRetry), fresh (the value
\* refreshAccessToken returned), result, wakeAt (when the timer of sleep
\* fires).  The other fields record what happened, for the properties: n (the
\* calls made so far), t0 and v0 (Date.now() and the bundle loaded when
\* getAccessToken checked the expiry), sentAt (when the request in flight was
\* sent), limit (issue time + ttl - skew of the token it carries, in ms), log
\* (the network calls, saves and sleeps of the call, in order).

NoHeaders == [ra |-> NoHeader, reset |-> NoHeader]

\* an entry of the log: a refresh or a save made at time `now`
Event(e, ph, tok, status) ==
  [e |-> e, ph |-> ph, tok |-> tok, status |-> status, at |-> now, limit |-> 0,
   hdr |-> NoHeaders, jit |-> 0, wait |-> 0]

\* the request in flight, sent at rq.sentAt, is answered with status s
ApiEvent(s) ==
  [e |-> "api", ph |-> rq.ph, tok |-> rq.token, status |-> s, at |-> rq.sentAt,
   limit |-> rq.limit, hdr |-> NoHeaders, jit |-> 0, wait |-> 0]

\* sleep(waitMs), waitMs computed from the headers h with the jitter j
SleepEvent(h, j, w) ==
  [e |-> "sleep", ph |-> rq.ph, tok |-> 0, status |-> 0, at |-> now, limit |-> 0,
   hdr |-> h, jit |-> j, wait |-> w]

Logged(ev) == [rq EXCEPT !.log = Append(rq.log, ev)]

\* issue time + ttl - skew of the bundle v, in ms
SkewLimit(v) ==
  (IF v.created_at = Absent THEN 0 ELSE v.created_at)
  + ((IF v.expires_in = Absent THEN DEFAULT_TTL ELSE v.expires_in) - SKEW_SECONDS) * 1000

\* (mutant) the jitter taken off the wait
jitter_Negative(ms, j) == ms - j

\* jitter(ms), with j = Math.floor(Math.random() * 2000)
jitter(ms, j) == ms + j

\* computeBackoffMsFromHeaders(headers) at Date.now() = t
computeBackoffMsFromHeaders(h, t, j) ==
  IF h.ra # NoHeader THEN jitter(h.ra * 1000, j)
  ELSE IF h.reset # NoHeader /\ h.reset * 1000 - t + RESET_CUSHION_MS > 0
       THEN jitter(h.reset * 1000 - t + RESET_CUSHION_MS, j)
       ELSE jitter(BACKOFF_DEFAULT_MS, j)

\* an error leaves authedRequest
Thrown(q, res) == [q EXCEPT !.pc = "done", !.result = res]

\* (mutant) the re-issue keeps the Authorization header of the first request
TokenAfterSave_Stale(q) == q.token

\* the access token of the request sent after saveTokens: refreshed.accessToken
TokenAfterSave(q) == q.fresh.accessToken

\* the error of HTTP status s, as the caller sees it
ErrOf(s) ==
  IF s = 400 THEN "e400" ELSE IF s = 401 THEN "e401" ELSE IF s = 403 THEN "e403"
  ELSE IF s = 429 THEN "e429" ELSE "e500"

\* (mutant) the catch block refreshes on every error status
RefreshOn_AnyError(s) == s # 200

\* ax.response?.status === 401 && doRefreshOn401 (no caller passes false)
RefreshOn(s) == s = 401

\* the catch block of authedRequest, entered with an error of HTTP status s
\* thrown by getAccessToken or by the first requestWithRetry
Catch(q, s) ==
  IF RefreshOn(s) /\ vault.refresh_token # 0
    THEN [q EXCEPT !.pc = "c_refresh", !.ph = 2]
    ELSE Thrown(q, ErrOf(s))

\* authedRequest is called: getAccessToken up to its first network call
ReqStart ==
  /\ rq.pc \in {"idle", "done"}
  /\ rq.n < MaxCalls
  /\ LET q == [NoCall EXCEPT !.ph = 1, !.n = rq.n + 1, !.t0 = now, !.v0 = vault] IN
     rq' = IF vault.access_token = 0 \/ vault.refresh_token = 0
             THEN Thrown(q, "incomplete")
           ELSE IF ~isExpired(vault, now)
             THEN [q EXCEPT !.pc = "request", !.token = vault.access_token,
                            !.retries = DEFAULT_RETRIES,
                            !.sentAt = now, !.limit = SkewLimit(vault)]
           ELSE [q EXCEPT !.pc = "gat_refresh", !.ph = 0]
  /\ UNCHANGED <<vault, issued, svc>>

\* refreshAccessToken: the token endpoint issues a new pair; the response may
\* lack refresh_token (the old one is kept) and expires_in
RefreshOk(rotated, exp) ==
  /\ rq.pc \in {"gat_refresh", "c_refresh"}
  /\ issued < MaxIssued
  /\ issued' = issued + 1
  /\ rq' = [Logged(Event("refresh", rq.ph, vault.refresh_token, 200)) EXCEPT
              !.pc = IF rq.pc = "gat_refresh" THEN "gat_save" ELSE "c_save",
              !.fresh = [accessToken |-> issued + 1,
                         refreshToken |-> IF rotated THEN issued + 1 ELSE vault.refresh_token,
                         expiresIn |-> exp]]
  /\ UNCHANGED <<vault, svc>>

\* refreshAccessToken: the token endpoint rejects the refresh token.  In
\* revision 1 the axios error leaves refreshAccessToken as it is, with its
\* response status; thrown by getAccessToken it lands in the catch block of
\* authedRequest.  Revision 2 catches it and throws a plain Error, which has no
\* response, so the catch block of authedRequest rethrows it.
RefreshFail(s) ==
  /\ rq.pc \in {"gat_refresh", "c_refresh"}
  /\ LET q == Logged(Event("refresh", rq.ph, vault.refresh_token, s)) IN
     rq' = IF svc = 2 THEN Thrown(q, "refresh_failed")
           ELSE IF rq.pc = "gat_refresh" THEN Catch(q, s)
           ELSE Thrown(q, ErrOf(s))
  /\ UNCHANGED <<vault, issued, svc>>

\* saveTokens, then the (re-)issue is prepared with the refreshed token
Save ==
  /\ rq.pc \in {"gat_save", "c_save"}
  /\ vault' = [access_token |-> rq.fresh.accessToken,
               refresh_token |-> rq.fresh.refreshToken,
               expires_in |-> IF rq.fresh.expiresIn = Absent THEN DEFAULT_TTL
                              ELSE rq.fresh.expiresIn,
               created_at |-> now]
  /\ rq' = [Logged(Event("save", rq.ph, rq.fresh.accessToken, 0)) EXCEPT
              !.pc = "request",
              !.ph = IF rq.pc = "gat_save" THEN 1 ELSE 2,
              !.token = TokenAfterSave(rq),
              !.attempt = 0,
              !.retries = IF rq.pc = "gat_save" THEN DEFAULT_RETRIES ELSE REISSUE_RETRIES,
              !.sentAt = now,
              !.limit = SkewLimit(vault')]
  /\ UNCHANGED <<issued, svc>>

\* (mutant) a 429 is retried whatever the attempt count
MayRetry_Always(s, attempt, retries) == s = 429

\* requestWithRetry: status === 429 && attempt < retries
MayRetry(s, attempt, retries) == s = 429 /\ attempt < retries

\* requestWithRetry: the API answers the request with status s (and, with a
\* 429, the headers h); a 429 within the retry budget starts sleep(waitMs)
ApiResponse(s, h, j) ==
  /\ rq.pc = "request"
  /\ LET q == Logged(ApiEvent(s))
         w == computeBackoffMsFromHeaders(h, now, j) IN
     rq' = IF s = 200 THEN Thrown(q, "ok")
           ELSE IF MayRetry(s, rq.attempt, rq.retries)
             THEN [q EXCEPT !.pc = "sleep", !.wakeAt = now + w,
                            !.log = Append(q.log, SleepEvent(h, j, w))]
           ELSE IF rq.ph = 1 THEN Catch(q, s)
           ELSE Thrown(q, ErrOf(s))
  /\ UNCHANGED <<vault, issued, svc>>

\* the timer of sleep fires: attempt++, and the request is sent again
Wake ==
  /\ rq.pc = "sleep"
  /\ now' = IF now < rq.wakeAt THEN rq.wakeAt ELSE now
  /\ rq' = [rq EXCEPT !.pc = "request", !.attempt = rq.attempt + 1, !.sentAt = now']
  /\ UNCHANGED <<vault, issued, svc>>

\* bundles tokens.json can hold when the process starts: fresh, about to
\* expire, without a refresh token
StartVaults ==
  {FreshVault, [FreshVault EXCEPT !.expires_in = ShortTtl],
   [FreshVault EXCEPT !.refresh_token = 0],
   [FreshVault EXCEPT !.expires_in = SKEW_SECONDS + 30],
   [FreshVault EXCEPT !.expires_in = SKEW_SECONDS + 1, !.created_at = StartMs - 500]}

ReqInit ==
  /\ rev = 1
  /\ now = StartMs
  /\ file = EmptyState
  /\ isRunning = FALSE
  /\ resp = "none"
  /\ mentions = [m \in Ids |-> "none"]
  /\ replies = [m \in Ids |-> 0]
  /\ runs = [r \in Runs |-> IdleRun]
  /\ overlaps = 0
  /\ vault \in StartVaults
  /\ issued = 1
  /\ rq = NoCall
  /\ svc \in {1, 2}
  /\ bk = NoBackoff
  /\ au = NoAuth
  /\ vt = NoVault
  /\ ck = NoCheckpoint
  /\ tk = NoRefresh
  /\ cred = NoReset
  /\ cb = NoCallback
  /\ fm = NoFetch
  /\ sched = NoJob
  /\ duo = NoDuo
  /\ tj = NoTweetJobs
  /\ pace = NoPacing

ingRest == <<rev, file, isRunning, resp, mentions, replies, runs, overlaps>>

ReqNext ==
  \/ ReqStart /\ UNCHANGED <<now, ingRest, aloneVars>>
  \/ \E rotated \in BOOLEAN, exp \in {Absent, ShortTtl} :
       RefreshOk(rotated, exp) /\ UNCHANGED <<now, ingRest, aloneVars>>
  \/ \E s \in TokenFailStatuses : RefreshFail(s) /\ UNCHANGED <<now, ingRest, aloneVars>>
  \/ Save /\ UNCHANGED <<now, ingRest, aloneVars>>
  \/ \E s \in ApiStatuses \ {429} : ApiResponse(s, NoHeaders, 0) /\ UNCHANGED <<now, ingRest, aloneVars>>
  \/ \E h \in ReqHeaders, j \in JitterValues : ApiResponse(429, h, j) /\ UNCHANGED <<now, ingRest, aloneVars>>
  \/ Wake /\ UNCHANGED <<ingRest, aloneVars>>
  \/ Tick /\ UNCHANGED <<reqVars, aloneVars>>

ReqSpec == ReqInit /\ [][ReqNext]_vars

----------------------------------------------------------------------------
(* computeBackoffMsFromHeaders on its own *)

\* headers of a 429: Retry-After absent, zero or 30; x-rate-limit-reset
\* absent, zero, the second the process started in, the next one, a later one
BackoffHeaders ==
  [ra : RetryAfterValues,
   reset : {NoHeader, 0, StartMs \div 1000, (StartMs \div 1000) + 1, (StartMs \div 1000) + 90}]
\* values of Date.now(): on a second, and 200, 500 and 1000 ms after it
BackoffTimes == {StartMs, StartMs + 200, StartMs + RESET_CUSHION_MS, StartMs + 1000}
\* values of Math.floor(Math.random() * 2000)
BackoffJitters == {0, 1, JITTER_MS - 1}

\* waitMs = computeBackoffMsFromHeaders(h) with the jitter j
ComputeBackoff(h, j) ==
  /\ bk' = [n |-> 1, h |-> h, t |-> now, j |-> j,
            wait |-> computeBackoffMsFromHeaders(h, now, j)]
  /\ UNCHANGED <<now, ingRest, reqVars, au, vt, ck, tk, cred, cb, fm, sched, duo, tj, pace>>

BackoffInit ==
  /\ rev = 1
  /\ now \in BackoffTimes
  /\ file = EmptyState
  /\ isRunning = FALSE
  /\ resp = "none"
  /\ mentions = [m \in Ids |-> "none"]
  /\ replies = [m \in Ids |-> 0]
  /\ runs = [r \in Runs |-> IdleRun]
  /\ overlaps = 0
  /\ vault = FreshVault
  /\ issued = 1
  /\ rq = NoCall
  /\ svc = 1
  /\ bk = NoBackoff
  /\ au = NoAuth
  /\ vt = NoVault
  /\ ck = NoCheckpoint
  /\ tk = NoRefresh
  /\ cred = NoReset
  /\ cb = NoCallback
  /\ fm = NoFetch
  /\ sched = NoJob
  /\ duo = NoDuo
  /\ tj = NoTweetJobs
  /\ pace = NoPacing

BackoffNext == \E h \in BackoffHeaders, j \in BackoffJitters : ComputeBackoff(h, j)

BackoffSpec == BackoffInit /\ [][BackoffNext]_vars

----------------------------------------------------------------------------
(* The OAuth handshake: getAuthUrl and handleCallback.  au.arev = 1 is        *)
(* src/services/auth.service.ts (a verifierStore map), au.arev = 2 is the     *)
(* revision with the signed state (src/unnamed/part_002).                     *)

\* authorization URLs issued
MaxAuthUrls == 2
\* process restarts
MaxRestarts == 1

\* 10 * 60 * 1000
STATE_TTL_MS == 10 * 60 * 1000

\* env.ENCRYPTION_KEY, and a key of somebody else
SigningKey == "ENCRYPTION_KEY"
OtherKey == "other"

\* code verifiers and state nonces that randomBytes can give, and a verifier
\* of somebody else
Verifiers == {"cv1", "cv2"}
Nonces == {"n1", "n2"}
EvilVerifier == "evil"

PSeg(cv, t) == Seg("p", 1, cv, t, "")
\* hmacSha256(key, payloadStr), payloadStr the string that segment p encodes
hmacSha256(key, p) == Seg("s", p.v, p.cv, p.t, key)
Junk == Seg("junk", 0, "", 0, "")
Empty == Seg("empty", 0, "", 0, "")
NSeg(n) == Seg("nonce", 0, n, 0, "")

\* makeSignedState(codeVerifier) at Date.now() = t: payload "." signature
makeSignedState(cv, t) == <<PSeg(cv, t), hmacSha256(SigningKey, PSeg(cv, t))>>

\* codeChallengeS256(codeVerifier)
codeChallengeS256(cv) == [sha256 |-> cv]

Rejected(why) == [res |-> why, cv |-> ""]

\* Date.now() - payload.t > 10 * 60 * 1000
StateExpired(t, tnow) == tnow - t > STATE_TTL_MS

\* parseSignedState(state) at Date.now() = tnow.  state.split(".") is
\* destructured into its first two pieces; further pieces are dropped.
parseSignedState(st, tnow) ==
  IF Len(st) < 2 \/ st[1].kind = "empty" \/ st[2].kind = "empty" THEN Rejected("format")
  ELSE IF st[2] # hmacSha256(SigningKey, st[1]) THEN Rejected("signature")
  ELSE IF st[1].kind # "p" THEN Rejected("syntax")
  ELSE IF st[1].v # 1 THEN Rejected("payload")
  ELSE IF StateExpired(st[1].t, tnow) THEN Rejected("expired")
  ELSE [res |-> "ok", cv |-> st[1].cv]

\* verifierStore.get(state) of revision 1
StoreLookup(st) ==
  IF \E e \in au.store : e.state = st
  THEN [res |-> "ok", cv |-> (CHOOSE e \in au.store : e.state = st).cv]
  ELSE Rejected("missing")

\* getAuthUrl: a new random verifier (and, in revision 1, a new random
\* state); the URL carries the state and the challenge of the verifier
GetAuthUrl(cv, n) ==
  /\ Cardinality(au.urls) < MaxAuthUrls
  /\ \A u \in au.urls : u.cv # cv /\ u.state # <<NSeg(n)>>
  /\ LET st == IF au.arev = 1 THEN <<NSeg(n)>> ELSE makeSignedState(cv, now)
     IN au' = [au EXCEPT
                 !.urls = @ \cup {[state |-> st, challenge |-> codeChallengeS256(cv),
                                   cv |-> cv, t |-> now]},
                 !.store = IF au.arev = 1 THEN @ \cup {[state |-> st, cv |-> cv]} ELSE @]
  /\ UNCHANGED <<now, ingRest, reqVars, bk, vt, ck, tk, cred, cb, fm, sched, duo, tj, pace>>

\* the state values a callback can carry: the issued ones, and what somebody
\* without the signing key can make of them
CallbackStates ==
  {<<>>, <<Junk>>, <<NSeg("n0")>>}
  \cup {u.state : u \in au.urls}
  \cup UNION {
       IF au.arev = 1 THEN {}
       ELSE LET P == u.state[1]
                S == u.state[2]
                Pcv == PSeg(EvilVerifier, P.t)
                Pt == PSeg(P.cv, P.t + STATE_TTL_MS)
            IN {<<Pcv, S>>, <<Pt, S>>,
                <<Pcv, hmacSha256(OtherKey, Pcv)>>, <<P, hmacSha256(OtherKey, P)>>,
                <<P>>, <<P, Empty>>, <<Empty, S>>, <<Junk, S>>, <<P, Junk>>,
                <<P, S, Junk>>}
       : u \in au.urls}

\* handleCallback(code, state): the state is checked; if it passes, code and
\* the recovered verifier go to the token endpoint, which accepts or not
HandleCallback(st, exchanged) ==
  /\ LET r == IF au.arev = 1 THEN StoreLookup(st)
              ELSE IF st = <<>> THEN Rejected("missing")
              ELSE parseSignedState(st, now)
     IN au' = [au EXCEPT
                 !.out = [state |-> st, at |-> now, cv |-> r.cv, sent |-> r.res = "ok",
                          res |-> IF r.res # "ok" THEN r.res
                                  ELSE IF exchanged THEN "exchanged" ELSE "exchange_failed"],
                 !.store = IF au.arev = 1 /\ r.res = "ok"
                           THEN {e \in @ : e.state # st} ELSE @]
  /\ UNCHANGED <<now, ingRest, reqVars, bk, vt, ck, tk, cred, cb, fm, sched, duo, tj, pace>>

\* the process restarts: module state is lost, the environment is kept
Restart ==
  /\ au.restarts < MaxRestarts
  /\ au' = [au EXCEPT !.store = {}, !.restarts = @ + 1]
  /\ UNCHANGED <<now, ingRest, reqVars, bk, vt, ck, tk, cred, cb, fm, sched, duo, tj, pace>>

\* the instants at which the handshake is looked at
AuthTimes == {StartMs, StartMs + 1, StartMs + STATE_TTL_MS - 1, StartMs + STATE_TTL_MS,
              StartMs + STATE_TTL_MS + 1, StartMs + STATE_TTL_MS + 2}

\* time passes between the redirect and the callback
AuthTick(t) ==
  /\ now < t
  /\ now' = t
  /\ UNCHANGED <<ingRest, reqVars, aloneVars>>

AuthInit ==
  /\ rev = 1
  /\ now = StartMs
  /\ file = EmptyState
  /\ isRunning = FALSE
  /\ resp = "none"
  /\ mentions = [m \in Ids |-> "none"]
  /\ replies = [m \in Ids |-> 0]
  /\ runs = [r \in Runs |-> IdleRun]
  /\ overlaps = 0
  /\ vault = FreshVault
  /\ issued = 1
  /\ rq = NoCall
  /\ svc = 1
  /\ bk = NoBackoff
  /\ \E a \in {1, 2} : au = [NoAuth EXCEPT !.arev = a]
  /\ vt = NoVault
  /\ ck = NoCheckpoint
  /\ tk = NoRefresh
  /\ cred = NoReset
  /\ cb = NoCallback
  /\ fm = NoFetch
  /\ sched = NoJob
  /\ duo = NoDuo
  /\ tj = NoTweetJobs
  /\ pace = NoPacing

AuthNext ==
  \/ \E cv \in Verifiers, n \in Nonces : GetAuthUrl(cv, n)
  \/ \E st \in CallbackStates, exchanged \in BOOLEAN : HandleCallback(st, exchanged)
  \/ Restart
  \/ \E t \in AuthTimes : AuthTick(t)

AuthSpec == AuthInit /\ [][AuthNext]_vars

----------------------------------------------------------------------------
(* The token vault: saveTokens and loadTokens.  vt.erev = 1 is                *)
(* src/utils/encryption.ts, vt.erev = 2 is the encryption.ts kept in          *)
(* src/controllers/mentions.controller.ts (lines 22-129 and 131-210).         *)

\* writes to the tokens file (by saveTokens or by anything else)
MaxWrites == 2

Passphrases == {"p1", "p2"}
\* crypto.getRandomValues for the salt and the iv
Salts == {"s1", "s2"}
Ivs == {"iv1", "iv2"}

\* the bundles handed to saveTokens: revision 1 takes the two tokens only
Bundles ==
  IF vt.erev = 1
  THEN {Bundle(at, rt, Undefined, UndefinedNum, UndefinedNum) : at \in {"", "at1"}, rt \in {"", "rt1"}}
  ELSE {Bundle(at, rt, tt, ei, StartMs) :
          at \in {"", "at1"}, rt \in {Undefined, "rt1"}, tt \in {Undefined, "bearer"},
          ei \in {UndefinedNum, DEFAULT_TTL}}

\* one property of JSON.stringify's output: undefined is left out
Prop(v, undef) == [has |-> v # undef, val |-> v]

\* (mutant) JSON.stringify({ accessToken, refreshToken }) whatever the revision
stringifyTokens_TokensOnly(b) ==
  [NoText EXCEPT !.access_token = Prop(b.access_token, Undefined),
                 !.refresh_token = Prop(b.refresh_token, Undefined)]

\* JSON.stringify({ accessToken, refreshToken }) in revision 1,
\* JSON.stringify(tokens) in revision 2
stringifyTokens(b) ==
  IF vt.erev = 1
  THEN [NoText EXCEPT !.access_token = Prop(b.access_token, Undefined),
                      !.refresh_token = Prop(b.refresh_token, Undefined)]
  ELSE [access_token |-> Prop(b.access_token, Undefined),
        refresh_token |-> Prop(b.refresh_token, Undefined),
        token_type |-> Prop(b.token_type, Undefined),
        expires_in |-> Prop(b.expires_in, UndefinedNum),
        created_at |-> Prop(b.created_at, UndefinedNum)]

\* JSON.parse of such a text: a property left out reads as undefined
parseTokens(txt) ==
  Bundle(IF txt.access_token.has THEN txt.access_token.val ELSE Undefined,
         IF txt.refresh_token.has THEN txt.refresh_token.val ELSE Undefined,
         IF txt.token_type.has THEN txt.token_type.val ELSE Undefined,
         IF txt.expires_in.has THEN txt.expires_in.val ELSE UndefinedNum,
         IF txt.created_at.has THEN txt.created_at.val ELSE UndefinedNum)

\* !x for an optional string
Falsy(x) == x \in {"", Undefined}

\* crypto.subtle.decrypt succeeds: the key (derived from passphrase and
\* salt) and the iv are the ones the ciphertext was made with
DecryptOk(pass, salt, iv, ct) == ct.pass = pass /\ ct.salt = salt /\ ct.iv = iv

\* what loadTokens gives
Threw(why, pass) == [res |-> why, bundle |-> NoBundle, pass |-> pass]
Returned(b, pass) == [res |-> "bundle", bundle |-> b, pass |-> pass]

\* loadTokens(passphrase) of src/utils/encryption.ts on file f
loadTokens1(f, pass) ==
  IF f.kind = "none" THEN Threw("not_found", pass)
  ELSE IF f.kind = "garbage" THEN Threw("invalid", pass)
  ELSE IF f.kind = "blob" /\ f.fmt = 1
  THEN IF ~DecryptOk(pass, f.salt, f.iv, f.ct) THEN Threw("decryption_failed", pass)
       ELSE IF Falsy(parseTokens(f.ct.pt).access_token) \/ Falsy(parseTokens(f.ct.pt).refresh_token)
            THEN Threw("decryption_failed", pass)
            ELSE Returned(parseTokens(f.ct.pt), pass)
  ELSE IF f.kind = "plain" /\ ~Falsy(parseTokens(f.ct.pt).access_token)
                           /\ ~Falsy(parseTokens(f.ct.pt).refresh_token)
  THEN Returned(parseTokens(f.ct.pt), pass)
  ELSE Threw("invalid", pass)

\* loadTokens(passphrase) of the revision in mentions.controller.ts on file f
loadTokens2(f, pass) ==
  IF f.kind = "none" THEN Threw("not_found", pass)
  ELSE IF f.kind = "garbage" THEN Threw("syntax_error", pass)
  ELSE IF f.kind # "blob" \/ f.fmt # 2 THEN Threw("type_error", pass)
  ELSE IF ~DecryptOk(pass, f.salt, f.iv, f.ct) THEN Threw("decryption_failed", pass)
  ELSE Returned(parseTokens(f.ct.pt), pass)

\* saveTokens(bundle, passphrase) with the random salt and iv
SaveTokens(b, pass, salt, iv) ==
  /\ vt.writes < MaxWrites
  /\ vt' = [vt EXCEPT
              !.file = TokensFile("blob", vt.erev, salt, iv, Cipher(pass, salt, iv, stringifyTokens(b))),
              !.saved = [done |-> TRUE, bundle |-> b, pass |-> pass],
              !.out = NoLoad,
              !.writes = @ + 1]
  /\ UNCHANGED <<now, ingRest, reqVars, bk, au, ck, tk, cred, cb, fm, sched, duo, tj, pace>>

\* loadTokens(passphrase)
LoadTokens(pass) ==
  /\ vt' = [vt EXCEPT !.out = IF vt.erev = 1 THEN loadTokens1(vt.file, pass)
                               ELSE loadTokens2(vt.file, pass)]
  /\ UNCHANGED <<now, ingRest, reqVars, bk, au, ck, tk, cred, cb, fm, sched, duo, tj, pace>>

\* what somebody without the passphrase of the record can put in the file:
\* no file, garbage, tokens in the clear, a record of the other revision's
\* layout, a record with another salt or iv, a record encrypted under a
\* passphrase of their own
ForgedText ==
  [NoText EXCEPT !.access_token = Prop("evil_at", Undefined),
                 !.refresh_token = Prop("evil_rt", Undefined)]
OtherContents(f) ==
  {NoFile,
   TokensFile("garbage", 0, "", "", NoCipher),
   TokensFile("plain", 0, "", "", Cipher("", "", "", ForgedText))}
  \cup (IF f.kind # "blob" THEN {}
        ELSE {[f EXCEPT !.fmt = 3 - @]}
             \cup {[f EXCEPT !.salt = x] : x \in Salts \ {f.salt}}
             \cup {[f EXCEPT !.iv = x] : x \in Ivs \ {f.iv}}
             \cup {[f EXCEPT !.ct = Cipher(x, f.salt, f.iv, ForgedText)] : x \in Passphrases \ {f.ct.pass}})

\* the file is replaced behind the vault's back
Overwrite(f) ==
  /\ vt.writes < MaxWrites
  /\ vt' = [vt EXCEPT !.file = f, !.saved = NoSave, !.out = NoLoad, !.writes = @ + 1]
  /\ UNCHANGED <<now, ingRest, reqVars, bk, au, ck, tk, cred, cb, fm, sched, duo, tj, pace>>

VaultInit ==
  /\ rev = 1
  /\ now = StartMs
  /\ file = EmptyState
  /\ isRunning = FALSE
  /\ resp = "none"
  /\ mentions = [m \in Ids |-> "none"]
  /\ replies = [m \in Ids |-> 0]
  /\ runs = [r \in Runs |-> IdleRun]
  /\ overlaps = 0
  /\ vault = FreshVault
  /\ issued = 1
  /\ rq = NoCall
  /\ svc = 1
  /\ bk = NoBackoff
  /\ au = NoAuth
  /\ \E e \in {1, 2} : vt = [NoVault EXCEPT !.erev = e]
  /\ ck = NoCheckpoint
  /\ tk = NoRefresh
  /\ cred = NoReset
  /\ cb = NoCallback
  /\ fm = NoFetch
  /\ sched = NoJob
  /\ duo = NoDuo
  /\ tj = NoTweetJobs
  /\ pace = NoPacing

VaultNext ==
  \/ \E b \in Bundles, pass \in Passphrases, salt \in Salts, iv \in Ivs : SaveTokens(b, pass, salt, iv)
  \/ \E pass \in Passphrases : LoadTokens(pass)
  \/ \E f \in OtherContents(vt.file) : Overwrite(f)

VaultSpec == VaultInit /\ [][VaultNext]_vars

----------------------------------------------------------------------------
(* The checkpoint file: saveState and loadState of src/jobs/mentions.job.ts,  *)
(* with the process stopping at any point.  writeFileSync(path, data) opens   *)
(* the file for writing, which empties it, then writes the data, then closes. *)
(* ck.pc is "idle" (no saveState in progress), "writing" (inside              *)
(* writeFileSync) or "down" (the process has stopped).                        *)

\* calls of saveState
MaxSaves == 2
\* times the process stops
MaxCrashes == 1

\* the states a cycle hands to saveState
CheckpointStates ==
  [sinceId : {0} \cup Ids, nextAllowedAt : {0, StartMs + RATE_LIMIT_FALLBACK_MS},
   me : {NoMe, SelfId}, lastRunAt : {0, StartMs}]

\* JSON.stringify(s), in the pieces a write can stop between
stringifyState(s) ==
  <<[tok |-> "{", body |-> EmptyState], [tok |-> "members", body |-> s],
    [tok |-> "}", body |-> EmptyState]>>

\* JSON.parse(txt) succeeds
ParsesAsState(txt) ==
  Len(txt) = 3 /\ txt[1].tok = "{" /\ txt[2].tok = "members" /\ txt[3].tok = "}"

\* loadState(): {} when there is no file or when JSON.parse throws
loadState(exists, txt) ==
  IF ~exists THEN EmptyState
  ELSE IF ParsesAsState(txt) THEN txt[2].body
  ELSE EmptyState

\* saveState(s) up to the open inside writeFileSync: the file exists and is empty
SaveStateOpen(s) ==
  /\ ck.pc = "idle"
  /\ ck.saves < MaxSaves
  /\ ck' = [ck EXCEPT !.pc = "writing", !.exists = TRUE, !.disk = <<>>,
                      !.text = stringifyState(s), !.next = s,
                      !.prev = loadState(ck.exists, ck.disk),
                      !.saves = @ + 1]
  /\ UNCHANGED <<now, ingRest, reqVars, bk, au, vt, tk, cred, cb, fm, sched, duo, tj, pace>>

\* writeFileSync writes the next piece; after the last one saveState returns
SaveStateWrite ==
  /\ ck.pc = "writing"
  /\ LET d == Append(ck.disk, ck.text[Len(ck.disk) + 1])
     IN ck' = [ck EXCEPT !.disk = d, !.pc = IF Len(d) = Len(ck.text) THEN "idle" ELSE "writing"]
  /\ UNCHANGED <<now, ingRest, reqVars, bk, au, vt, tk, cred, cb, fm, sched, duo, tj, pace>>

\* writeFileSync throws (the disk is full, an I/O error): saveState logs and returns
SaveStateThrows ==
  /\ ck.pc = "writing"
  /\ ck' = [ck EXCEPT !.pc = "idle"]
  /\ UNCHANGED <<now, ingRest, reqVars, bk, au, vt, tk, cred, cb, fm, sched, duo, tj, pace>>

\* the process stops
CheckpointCrash ==
  /\ ck.pc \in {"idle", "writing"}
  /\ ck.crashes < MaxCrashes
  /\ ck' = [ck EXCEPT !.pc = "down", !.crashes = @ + 1,
                      !.loaded = [done |-> FALSE, s |-> EmptyState]]
  /\ UNCHANGED <<now, ingRest, reqVars, bk, au, vt, tk, cred, cb, fm, sched, duo, tj, pace>>

\* the process starts again and the first cycle calls loadState
CheckpointRestart ==
  /\ ck.pc = "down"
  /\ ck' = [ck EXCEPT !.pc = "idle",
                      !.loaded = [done |-> TRUE, s |-> loadState(ck.exists, ck.disk)]]
  /\ UNCHANGED <<now, ingRest, reqVars, bk, au, vt, tk, cred, cb, fm, sched, duo, tj, pace>>

CheckpointInit ==
  /\ rev = 1
  /\ now = StartMs
  /\ file = EmptyState
  /\ isRunning = FALSE
  /\ resp = "none"
  /\ mentions = [m \in Ids |-> "none"]
  /\ replies = [m \in Ids |-> 0]
  /\ runs = [r \in Runs |-> IdleRun]
  /\ overlaps = 0
  /\ vault = FreshVault
  /\ issued = 1
  /\ rq = NoCall
  /\ svc = 1
  /\ bk = NoBackoff
  /\ au = NoAuth
  /\ vt = NoVault
  /\ ck = NoCheckpoint
  /\ tk = NoRefresh
  /\ cred = NoReset
  /\ cb = NoCallback
  /\ fm = NoFetch
  /\ sched = NoJob
  /\ duo = NoDuo
  /\ tj = NoTweetJobs
  /\ pace = NoPacing

CheckpointNext ==
  \/ \E s \in CheckpointStates : SaveStateOpen(s)
  \/ SaveStateWrite
  \/ SaveStateThrows
  \/ CheckpointCrash
  \/ CheckpointRestart

CheckpointSpec == CheckpointInit /\ [][CheckpointNext]_vars

----------------------------------------------------------------------------
(* The refresh of getAccessToken (src/services/twitter.service.ts) down to    *)
(* the file: loadTokens, refreshAccessToken, saveTokens, with the process     *)
(* stopping at any point.  tk.pc is "idle", "refreshing" (the request to the  *)
(* token endpoint is awaited), "issued" (the new tokens are in memory),       *)
(* "writing" (inside writeFileSync) or "down".                                *)

\* refreshes the token endpoint answers
MaxRefreshes == 3
\* times the process stops during the refreshes
MaxStops == 1

\* the record in the file can be parsed and decrypted
ParsesAsRecord(txt) ==
  Len(txt) = 3 /\ txt[1].tok = "{" /\ txt[2].tok = "members" /\ txt[3].tok = "}"

\* getAccessToken: loadTokens gave an expired bundle, refreshAccessToken is called
RefreshBegin ==
  /\ tk.pc = "idle"
  /\ tk.newest < MaxRefreshes
  /\ ParsesAsRecord(tk.disk)
  /\ tk' = [tk EXCEPT !.pc = "refreshing", !.prior = tk.disk[2].body, !.result = "none"]
  /\ UNCHANGED <<now, ingRest, reqVars, bk, au, vt, ck, cred, cb, fm, sched, duo, tj, pace>>

\* the token endpoint answers with new tokens.  With rotate it issues a new
\* refresh token and stops accepting the one presented; without, the answer
\* carries no refresh token and the code keeps the old one.
RemoteIssues(rotate) ==
  /\ tk.pc = "refreshing"
  /\ tk.prior.refresh \in tk.accepted
  /\ LET g == tk.newest + 1
     IN tk' = [tk EXCEPT !.pc = "issued", !.newest = g,
                         !.fresh = Pair(g, IF rotate THEN g ELSE tk.prior.refresh),
                         !.accepted = IF rotate THEN {g} ELSE @]
  /\ UNCHANGED <<now, ingRest, reqVars, bk, au, vt, ck, cred, cb, fm, sched, duo, tj, pace>>

\* the token endpoint rejects the refresh token: getAccessToken throws
RemoteRejects ==
  /\ tk.pc = "refreshing"
  /\ tk.prior.refresh \notin tk.accepted
  /\ tk' = [tk EXCEPT !.pc = "idle", !.result = "refresh_rejected"]
  /\ UNCHANGED <<now, ingRest, reqVars, bk, au, vt, ck, cred, cb, fm, sched, duo, tj, pace>>

\* saveTokens up to the open inside writeFileSync: the file is empty
SaveTokensOpen ==
  /\ tk.pc = "issued"
  /\ tk' = [tk EXCEPT !.pc = "writing", !.disk = <<>>, !.text = recordText(tk.fresh)]
  /\ UNCHANGED <<now, ingRest, reqVars, bk, au, vt, ck, cred, cb, fm, sched, duo, tj, pace>>

\* writeFileSync writes the next piece; after the last one saveTokens returns
\* and getAccessToken returns the new access token
SaveTokensWrite ==
  /\ tk.pc = "writing"
  /\ LET d == Append(tk.disk, tk.text[Len(tk.disk) + 1])
     IN tk' = [tk EXCEPT !.disk = d,
                         !.pc = IF Len(d) = Len(tk.text) THEN "idle" ELSE "writing",
                         !.result = IF Len(d) = Len(tk.text) THEN "token" ELSE @]
  /\ UNCHANGED <<now, ingRest, reqVars, bk, au, vt, ck, cred, cb, fm, sched, duo, tj, pace>>

\* saveTokens throws, before the file is opened (key derivation, mkdirSync)
\* or inside writeFileSync: getAccessToken throws
SaveTokensThrows ==
  /\ tk.pc \in {"issued", "writing"}
  /\ tk' = [tk EXCEPT !.pc = "idle", !.result = "save_failed"]
  /\ UNCHANGED <<now, ingRest, reqVars, bk, au, vt, ck, cred, cb, fm, sched, duo, tj, pace>>

\* the process stops
RefreshCrash ==
  /\ tk.pc # "down"
  /\ tk.crashes < MaxStops
  /\ tk' = [tk EXCEPT !.pc = "down", !.crashes = @ + 1, !.result = "none"]
  /\ UNCHANGED <<now, ingRest, reqVars, bk, au, vt, ck, cred, cb, fm, sched, duo, tj, pace>>

\* the process starts again
RefreshRestart ==
  /\ tk.pc = "down"
  /\ tk' = [tk EXCEPT !.pc = "idle"]
  /\ UNCHANGED <<now, ingRest, reqVars, bk, au, vt, ck, cred, cb, fm, sched, duo, tj, pace>>

RefreshInit ==
  /\ rev = 1
  /\ now = StartMs
  /\ file = EmptyState
  /\ isRunning = FALSE
  /\ resp = "none"
  /\ mentions = [m \in Ids |-> "none"]
  /\ replies = [m \in Ids |-> 0]
  /\ runs = [r \in Runs |-> IdleRun]
  /\ overlaps = 0
  /\ vault = FreshVault
  /\ issued = 1
  /\ rq = NoCall
  /\ svc = 1
  /\ bk = NoBackoff
  /\ au = NoAuth
  /\ vt = NoVault
  /\ ck = NoCheckpoint
  /\ tk = NoRefresh
  /\ cred = NoReset
  /\ cb = NoCallback
  /\ fm = NoFetch
  /\ sched = NoJob
  /\ duo = NoDuo
  /\ tj = NoTweetJobs
  /\ pace = NoPacing

RefreshNext ==
  \/ RefreshBegin
  \/ \E rotate \in BOOLEAN : RemoteIssues(rotate)
  \/ RemoteRejects
  \/ SaveTokensOpen
  \/ SaveTokensWrite
  \/ SaveTokensThrows
  \/ RefreshCrash
  \/ RefreshRestart

RefreshSpec == RefreshInit /\ [][RefreshNext]_vars

----------------------------------------------------------------------------
(* The job and the credentials: cron cycles of runMentionsOnce while the      *)
(* tokens file is deleted (deleteTokensFile of src/utils/encryption.ts), the  *)
(* bot is authorized again, or the remote stops accepting the refresh token.  *)
(* cred.first is what the first cycle after a reset and a new authorization   *)
(* loaded; cred.failed says that a cycle has failed on the dead refresh       *)
(* token since the last authorization; cred.contacted that a later cycle went *)
(* to the network all the same.                                               *)

\* authorizations of the bot (the first one included)
MaxAuths == 2

credRest == <<reqVars, bk, au, vt, ck, tk, cb, fm, sched, duo, tj, pace>>

NoHdr == [ra |-> NoHeader, reset |-> NoHeader]

\* loadTokens finds a record and the remote accepts its tokens
Usable == cred.present /\ ~cred.dead

\* the cron callback fires
CredCronTick ==
  /\ Quiet
  /\ CronTick
  /\ cred' = [cred EXCEPT
                !.fresh = FALSE,
                !.first = IF cred.fresh
                          THEN [done |-> TRUE, sinceId |-> file.sinceId, me |-> file.me]
                          ELSE @,
                !.contacted = @ \/ (cred.failed /\ ~BackoffActive(file, now))]
  /\ UNCHANGED credRest

\* a network call of the cycle fails because there is no tokens file or
\* because the token endpoint rejects the refresh token: the outer catch
CredSelfIdFail(r) ==
  /\ ~Usable
  /\ SelfIdFail(r, "auth", NoHdr)
  /\ cred' = [cred EXCEPT !.failed = @ \/ (cred.present /\ cred.dead)]
  /\ UNCHANGED credRest

CredFetchFail(r) ==
  /\ ~Usable
  /\ FetchFail(r, "auth", NoHdr)
  /\ cred' = [cred EXCEPT !.failed = @ \/ (cred.present /\ cred.dead)]
  /\ UNCHANGED credRest

\* the remote stops accepting the refresh token (and the access token)
RemoteRevokes ==
  /\ Quiet
  /\ Usable
  /\ cred' = [cred EXCEPT !.dead = TRUE]
  /\ resp' = "none"
  /\ UNCHANGED <<rev, now, file, isRunning, mentions, replies, runs, overlaps>>
  /\ UNCHANGED credRest

\* deleteTokensFile(): rmSync(TOKENS_FILE_PATH)
DeleteTokensFile ==
  /\ \A q \in Runs : runs[q].pc = "idle"
  /\ cred.present
  /\ cred' = [cred EXCEPT !.present = FALSE, !.resets = @ + 1, !.fresh = FALSE]
  /\ resp' = "none"
  /\ UNCHANGED <<rev, now, file, isRunning, mentions, replies, runs, overlaps>>
  /\ UNCHANGED credRest

\* the authorization callback succeeds: saveTokens writes a new record
Reauthorize ==
  /\ \A q \in Runs : runs[q].pc = "idle"
  /\ cred.auths < MaxAuths
  /\ cred' = [cred EXCEPT !.present = TRUE, !.dead = FALSE, !.failed = FALSE,
                          !.auths = @ + 1, !.fresh = cred.resets > 0 /\ ~cred.present]
  /\ resp' = "none"
  /\ UNCHANGED <<rev, now, file, isRunning, mentions, replies, runs, overlaps>>
  /\ UNCHANGED credRest

CredInit ==
  /\ rev \in {1, 2}
  /\ now = StartMs
  /\ file = EmptyState
  /\ isRunning = FALSE
  /\ resp = "none"
  /\ mentions = [m \in Ids |-> "none"]
  /\ replies = [m \in Ids |-> 0]
  /\ runs = [r \in Runs |-> IdleRun]
  /\ overlaps = MaxOverlaps
  /\ vault = FreshVault
  /\ issued = 1
  /\ rq = NoCall
  /\ svc = 1
  /\ bk = NoBackoff
  /\ au = NoAuth
  /\ vt = NoVault
  /\ ck = NoCheckpoint
  /\ tk = NoRefresh
  /\ cred = NoReset
  /\ cb = NoCallback
  /\ fm = NoFetch
  /\ sched = NoJob
  /\ duo = NoDuo
  /\ tj = NoTweetJobs
  /\ pace = NoPacing

CredNext ==
  \/ CredCronTick
  \/ \E r \in Runs : Usable /\ SelfIdOk(r) /\ UNCHANGED <<credRest, cred>>
  \/ \E r \in Runs : CredSelfIdFail(r)
  \/ \E r \in Runs : Usable /\ FetchOk(r) /\ UNCHANGED <<credRest, cred>>
  \/ \E r \in Runs : CredFetchFail(r)
  \/ \E r \in Runs : Usable /\ ReplyOk(r) /\ UNCHANGED <<credRest, cred>>
  \/ \E r \in Runs : ReplyErr(r) /\ UNCHANGED <<credRest, cred>>
  \/ \E r \in Runs : Settle(r) /\ UNCHANGED <<credRest, cred>>
  \/ Quiet /\ (\E a \in {SelfId, "other"} : NewMention(a)) /\ UNCHANGED <<credRest, cred>>
  \/ RemoteRevokes
  \/ DeleteTokensFile
  \/ Reauthorize

CredSpec == CredInit /\ [][CredNext]_vars

----------------------------------------------------------------------------
(* GET /callback (src/routes/auth.route.ts) on top of handleCallback.         *)
(* cb.arev = 1 is handleCallback of src/services/auth.service.ts, cb.arev = 2 *)
(* the one of the signed-state revision (src/unnamed/part_002).  cb.issued is *)
(* the newest bundle the token endpoint has issued (0: none), cb.vaulted the  *)
(* bundle in the tokens file (0: none).                                       *)

\* requests to GET /callback
MaxCallbacks == 4

cbRest == <<reqVars, bk, au, vt, ck, tk, cred, fm, sched, duo, tj, pace>>

\* what saveTokens and the check of the file after it can do
SaveOutcomes == {"saved", "throws", "file_missing"}

\* handleCallback(code, state) of the deployed revision: what it returns or
\* throws, and what it leaves in the vault.  stateOk: the state passes the
\* check of the revision; exchanged: the token endpoint accepts the code;
\* keySet: ENCRYPTION_KEY is set; save: the outcome of saveTokens.
handleCallbackResult(stateOk, exchanged, keySet, save) ==
  LET b == cb.issued + 1
  IN IF ~stateOk THEN [threw |-> "invalid_state", issued |-> cb.issued, vaulted |-> cb.vaulted]
     ELSE IF ~exchanged
     THEN [threw |-> "exchange_failed", issued |-> cb.issued, vaulted |-> cb.vaulted]
     ELSE IF cb.arev = 2 THEN [threw |-> "", issued |-> b, vaulted |-> cb.vaulted]
     ELSE IF ~keySet THEN [threw |-> "key_not_set", issued |-> b, vaulted |-> cb.vaulted]
     ELSE IF save = "throws" THEN [threw |-> "save_failed", issued |-> b, vaulted |-> cb.vaulted]
     ELSE IF save = "file_missing"
     THEN [threw |-> "file_missing_after_save", issued |-> b, vaulted |-> cb.vaulted]
     ELSE [threw |-> "", issued |-> b, vaulted |-> b]

\* authRouter.get("/callback"): the whole handler
CallbackRoute(hasCode, hasState, stateOk, exchanged, keySet, save) ==
  /\ cb.calls < MaxCallbacks
  /\ IF ~hasCode \/ ~hasState
     THEN cb' = [cb EXCEPT !.calls = @ + 1,
                           !.resp = Response(400, FALSE, "Missing OAuth code/state", {})]
     ELSE LET r == handleCallbackResult(stateOk, exchanged, keySet, save)
          IN cb' = [cb EXCEPT !.calls = @ + 1, !.issued = r.issued, !.vaulted = r.vaulted,
                              !.resp = IF r.threw = ""
                                       THEN Response(200, TRUE, "Bot is now authorized", {})
                                       ELSE Response(500, FALSE, r.threw, {})]
  /\ UNCHANGED <<now, ingRest, cbRest>>

CallbackInit ==
  /\ rev = 1
  /\ now = StartMs
  /\ file = EmptyState
  /\ isRunning = FALSE
  /\ resp = "none"
  /\ mentions = [m \in Ids |-> "none"]
  /\ replies = [m \in Ids |-> 0]
  /\ runs = [r \in Runs |-> IdleRun]
  /\ overlaps = 0
  /\ vault = FreshVault
  /\ issued = 1
  /\ rq = NoCall
  /\ svc = 1
  /\ bk = NoBackoff
  /\ au = NoAuth
  /\ vt = NoVault
  /\ ck = NoCheckpoint
  /\ tk = NoRefresh
  /\ cred = NoReset
  /\ \E a \in {1, 2} : cb = [NoCallback EXCEPT !.arev = a]
  /\ fm = NoFetch
  /\ sched = NoJob
  /\ duo = NoDuo
  /\ tj = NoTweetJobs
  /\ pace = NoPacing

CallbackNext ==
  \E hasCode \in BOOLEAN, hasState \in BOOLEAN, stateOk \in BOOLEAN, exchanged \in BOOLEAN,
     keySet \in BOOLEAN, save \in SaveOutcomes :
    CallbackRoute(hasCode, hasState, stateOk, exchanged, keySet, save)

CallbackSpec == CallbackInit /\ [][CallbackNext]_vars

----------------------------------------------------------------------------
(* Cycles under fair scheduling with a mention that cannot be answered: the   *)
(* remote rejects every reply to it with an error other than 429 and accepts  *)
(* every other request.  node-cron keeps firing and every request is answered. *)
(* Cycles are started by cron only and never beside a cycle in flight.        *)

\* the mention whose reply the remote always rejects: the oldest one
PoisonId == IdBase + 1

\* the item the cycle in slot r is waiting on a postReply for
Awaited(r) == runs[r].batch[runs[r].i]

PoisonCronTick == Quiet /\ CronTick /\ UNCHANGED <<reqVars, aloneVars>>

PoisonSelfIdOk == \E r \in Runs : SelfIdOk(r) /\ UNCHANGED <<reqVars, aloneVars>>

PoisonFetchOk == \E r \in Runs : FetchOk(r) /\ UNCHANGED <<reqVars, aloneVars>>

\* postReply for any other mention resolves
PoisonReplyOk ==
  \E r \in Runs :
    /\ runs[r].pc = "reply"
    /\ Awaited(r) # PoisonId
    /\ ReplyOk(r)
    /\ UNCHANGED <<reqVars, aloneVars>>

\* postReply for the poisoned mention rejects, never with a 429
PoisonReplyErr ==
  \E r \in Runs :
    /\ runs[r].pc = "reply"
    /\ Awaited(r) = PoisonId
    /\ ReplyErr(r)
    /\ UNCHANGED <<reqVars, aloneVars>>

PoisonSettle == \E r \in Runs : Settle(r) /\ UNCHANGED <<reqVars, aloneVars>>

PoisonNewMention ==
  Quiet /\ (\E a \in {SelfId, "other"} : NewMention(a)) /\ UNCHANGED <<reqVars, aloneVars>>

PoisonInit ==
  /\ rev \in {1, 2}
  /\ now = StartMs
  /\ file = EmptyState
  /\ isRunning = FALSE
  /\ resp = "none"
  /\ mentions = [m \in Ids |-> "none"]
  /\ replies = [m \in Ids |-> 0]
  /\ runs = [r \in Runs |-> IdleRun]
  /\ overlaps = MaxOverlaps
  /\ vault = FreshVault
  /\ issued = 1
  /\ rq = NoCall
  /\ svc = 1
  /\ bk = NoBackoff
  /\ au = NoAuth
  /\ vt = NoVault
  /\ ck = NoCheckpoint
  /\ tk = NoRefresh
  /\ cred = NoReset
  /\ cb = NoCallback
  /\ fm = NoFetch
  /\ sched = NoJob
  /\ duo = NoDuo
  /\ tj = NoTweetJobs
  /\ pace = NoPacing

PoisonNext ==
  \/ PoisonCronTick
  \/ PoisonSelfIdOk
  \/ PoisonFetchOk
  \/ PoisonReplyOk
  \/ PoisonReplyErr
  \/ PoisonSettle
  \/ PoisonNewMention

\* the schedule fires again and again, and every request in flight is answered
PoisonFairness ==
  /\ WF_vars(PoisonCronTick)
  /\ WF_vars(PoisonSelfIdOk)
  /\ WF_vars(PoisonFetchOk)
  /\ WF_vars(PoisonReplyOk)
  /\ WF_vars(PoisonReplyErr)
  /\ WF_vars(PoisonSettle)

PoisonSpec == PoisonInit /\ [][PoisonNext]_vars /\ PoisonFairness

----------------------------------------------------------------------------
(* fetchMentions (src/services/twitter.service.ts): one call, cut at the      *)
(* await of each page request.  fm.seen keeps, for every page requested so    *)
(* far, the number of its items and whether it carried a next_token.          *)

MAX_PAGES == 5
PAGE_SIZE == 20

fmRest == <<reqVars, bk, au, vt, ck, tk, cred, cb, sched, duo, tj, pace>>

\* what the provider may answer: pages that are empty, short, one short of
\* full, full and over-full; ids newest first from a starting id, so that
\* pages may overlap and later pages may hold newer ids than earlier ones
PageLengths == {0, 1, PAGE_SIZE - 1, PAGE_SIZE, PAGE_SIZE + 1}
PageStarts == {100, 130}
PageTokens == {"none", "tok"}
PageItems(start, n) == [k \in 1 .. n |-> start - k + 1]

\* out.sort((a, b) => (BigInt(a.id) < BigInt(b.id) ? -1 : 1)) on the array
\* out, which may hold an id more than once: the ids of S in the order of
\* BigIntLess, each as many times as q holds it
RECURSIVE SortValues(_, _)
SortValues(S, q) ==
  IF S = {} THEN <<>>
  ELSE LET m == CHOOSE x \in S : \A y \in S \ {x} : BigIntLess(x, y)
           c == Cardinality({k \in 1 .. Len(q) : q[k] = m})
       IN [k \in 1 .. c |-> m] \o SortValues(S \ {m}, q)

SortSeqById(q) == SortValues({q[k] : k \in 1 .. Len(q)}, q)

\* (mutant) the break taken on the token alone
StopsAfter_TokenOnly(items, token) == token = "none"

\* if (!pageToken || items.length < PAGE_SIZE) break
StopsAfter(items, token) == token = "none" \/ Len(items) < PAGE_SIZE

\* one iteration of the while loop whose request resolved with the page
\* (items, token); when the loop ends, the sort and the return follow at once
FetchPage(items, token) ==
  /\ fm.pc = "loop"
  /\ fm.pages < MAX_PAGES
  /\ LET out1 == fm.out \o items
         pages1 == fm.pages + 1
         over == StopsAfter(items, token) \/ ~(pages1 < MAX_PAGES)
     IN fm' = [fm EXCEPT !.out = out1, !.pages = pages1, !.pageToken = token,
                         !.seen = Append(@, [n |-> Len(items), next |-> token # "none"]),
                         !.pc = IF over THEN "done" ELSE "loop",
                         !.result = IF over THEN SortSeqById(out1) ELSE <<>>]
  /\ UNCHANGED <<now, ingRest, fmRest>>

\* the request of an iteration rejected: authedRequest throws, and so does
\* fetchMentions
FetchPageThrows ==
  /\ fm.pc = "loop"
  /\ fm.pages < MAX_PAGES
  /\ fm' = [fm EXCEPT !.pc = "threw", !.seen = Append(@, [n |-> 0, next |-> FALSE])]
  /\ UNCHANGED <<now, ingRest, fmRest>>

FetchInit ==
  /\ rev = 1
  /\ now = StartMs
  /\ file = EmptyState
  /\ isRunning = FALSE
  /\ resp = "none"
  /\ mentions = [m \in Ids |-> "none"]
  /\ replies = [m \in Ids |-> 0]
  /\ runs = [r \in Runs |-> IdleRun]
  /\ overlaps = 0
  /\ vault = FreshVault
  /\ issued = 1
  /\ rq = NoCall
  /\ svc = 1
  /\ bk = NoBackoff
  /\ au = NoAuth
  /\ vt = NoVault
  /\ ck = NoCheckpoint
  /\ tk = NoRefresh
  /\ cred = NoReset
  /\ cb = NoCallback
  /\ fm = NoFetch
  /\ sched = NoJob
  /\ duo = NoDuo
  /\ tj = NoTweetJobs
  /\ pace = NoPacing

FetchNext ==
  \/ \E n \in PageLengths, start \in PageStarts, token \in PageTokens :
       FetchPage(PageItems(start, n), token)
  \/ FetchPageThrows

FetchSpec == FetchInit /\ [][FetchNext]_vars

----------------------------------------------------------------------------
(* startMentionsJob / stopMentionsJob (src/jobs/mentions.job.ts) around the   *)
(* cycle.  sched.job is the module variable job (0: null, otherwise the task  *)
(* it refers to), sched.active the node-cron tasks that have been scheduled   *)
(* and not stopped, sched.during the cycles that were in flight at the last   *)
(* stopMentionsJob.                                                           *)

\* calls of startMentionsJob and stopMentionsJob
MaxJobCalls == 4

schedRest == <<reqVars, bk, au, vt, ck, tk, cred, cb, fm, duo, tj, pace>>

\* startMentionsJob(): if (job) return; job = schedule(CRON_EXPR, callback)
StartMentionsJob ==
  /\ sched.calls < MaxJobCalls
  /\ IF sched.job # 0
     THEN sched' = [sched EXCEPT !.calls = @ + 1, !.last = "already_running"]
     ELSE sched' = [sched EXCEPT !.calls = @ + 1, !.last = "scheduled",
                                 !.made = @ + 1, !.job = sched.made + 1,
                                 !.active = @ \cup {sched.made + 1}, !.during = {}]
  /\ UNCHANGED <<now, ingRest, schedRest>>

\* (mutant) stopMentionsJob forgetting the task without stopping it
StopMentionsJob_NoStop ==
  /\ sched.calls < MaxJobCalls
  /\ IF sched.job # 0
     THEN sched' = [sched EXCEPT !.calls = @ + 1, !.last = "stopped", !.job = 0,
                                 !.during = {r \in Runs : InFlight(r)}]
     ELSE sched' = [sched EXCEPT !.calls = @ + 1, !.last = "not_running"]
  /\ UNCHANGED <<now, ingRest, schedRest>>

\* stopMentionsJob(): if (job) { job.stop(); job = null }
StopMentionsJob ==
  /\ sched.calls < MaxJobCalls
  /\ IF sched.job # 0
     THEN sched' = [sched EXCEPT !.calls = @ + 1, !.last = "stopped", !.job = 0,
                                 !.active = @ \ {sched.job},
                                 !.during = {r \in Runs : InFlight(r)}]
     ELSE sched' = [sched EXCEPT !.calls = @ + 1, !.last = "not_running"]
  /\ UNCHANGED <<now, ingRest, schedRest>>

\* a task that has not been stopped fires its callback
JobCronTick ==
  /\ sched.active # {}
  /\ Quiet
  /\ CronTick
  /\ UNCHANGED <<schedRest, sched>>

JobInit ==
  /\ rev \in {1, 2}
  /\ now = StartMs
  /\ file = EmptyState
  /\ isRunning = FALSE
  /\ resp = "none"
  /\ mentions = [m \in Ids |-> "none"]
  /\ replies = [m \in Ids |-> 0]
  /\ runs = [r \in Runs |-> IdleRun]
  /\ overlaps = MaxOverlaps
  /\ vault = FreshVault
  /\ issued = 1
  /\ rq = NoCall
  /\ svc = 1
  /\ bk = NoBackoff
  /\ au = NoAuth
  /\ vt = NoVault
  /\ ck = NoCheckpoint
  /\ tk = NoRefresh
  /\ cred = NoReset
  /\ cb = NoCallback
  /\ fm = NoFetch
  /\ sched = NoJob
  /\ duo = NoDuo
  /\ tj = NoTweetJobs
  /\ pace = NoPacing

JobNext ==
  \/ StartMentionsJob
  \/ StopMentionsJob
  \/ JobCronTick
  \/ \E r \in Runs : SelfIdOk(r) /\ UNCHANGED <<schedRest, sched>>
  \/ \E r \in Runs : FetchOk(r) /\ UNCHANGED <<schedRest, sched>>
  \/ \E r \in Runs : ReplyOk(r) /\ UNCHANGED <<schedRest, sched>>
  \/ \E r \in Runs : Settle(r) /\ UNCHANGED <<schedRest, sched>>
  \/ Quiet /\ (\E a \in {SelfId, "other"} : NewMention(a)) /\ UNCHANGED <<schedRest, sched>>

JobSpec == JobInit /\ [][JobNext]_vars

----------------------------------------------------------------------------
(* Two authed calls side by side (src/services/twitter.service.ts): a mention *)
(* cycle's authedRequest and generateAndPostTweet of the tweet scheduler.     *)
(* Each goes through loadTokens, refreshAccessToken and saveTokens, cut at    *)
(* the awaits.  duo.gen and duo.refresh are the bundle in the vault (the      *)
(* number of its access token, its refresh token), duo.issuedN the newest     *)
(* bundle the token endpoint has issued, duo.accepted the refresh tokens the  *)
(* endpoint accepts.  duo.rotates: the endpoint answers with a new refresh    *)
(* token and retires the one presented; otherwise its answer carries none     *)
(* and the caller keeps the one it presented (refresh_token || refreshToken). *)

\* refreshes each caller may start
MaxDuoCalls == 2

Callers == {"mentions", "tweet"}

duoRest == <<reqVars, bk, au, vt, ck, tk, cred, cb, fm, sched, tj, pace>>

\* getAccessToken finds the stored token expired (why = "expired"), or the
\* API answers 401 and authedRequest reloads the bundle (why = "401"): the
\* caller now holds the refresh token of the vault
DuoLoad(c, why) ==
  /\ duo.call[c].pc \in {"idle", "done", "threw"}
  /\ duo.call[c].n < MaxDuoCalls
  /\ duo' = [duo EXCEPT !.call[c] = [pc |-> "loaded", why |-> why, held |-> duo.refresh,
                                     fresh |-> 0, freshRefresh |-> 0, n |-> @.n + 1]]
  /\ UNCHANGED <<now, ingRest, duoRest>>

\* refreshAccessToken(held) resolved or rejected by the token endpoint
DuoRefresh(c) ==
  /\ duo.call[c].pc = "loaded"
  /\ LET h == duo.call[c].held
         g == duo.issuedN + 1
     IN IF h \in duo.accepted
        THEN duo' = [duo EXCEPT !.issuedN = g,
                                !.accepted = IF duo.rotates THEN (@ \ {h}) \cup {g} ELSE @,
                                !.call[c] = [@ EXCEPT !.pc = "refreshed", !.fresh = g,
                                               !.freshRefresh = IF duo.rotates THEN g ELSE h]]
        ELSE duo' = [duo EXCEPT !.call[c] = [@ EXCEPT !.pc = "threw"]]
  /\ UNCHANGED <<now, ingRest, duoRest>>

\* saveTokens(refreshed bundle) resolved
DuoSave(c) ==
  /\ duo.call[c].pc = "refreshed"
  /\ duo' = [duo EXCEPT !.gen = duo.call[c].fresh, !.refresh = duo.call[c].freshRefresh,
                        !.call[c] = [@ EXCEPT !.pc = "done"]]
  /\ UNCHANGED <<now, ingRest, duoRest>>

DuoInit ==
  /\ rev = 1
  /\ now = StartMs
  /\ file = EmptyState
  /\ isRunning = FALSE
  /\ resp = "none"
  /\ mentions = [m \in Ids |-> "none"]
  /\ replies = [m \in Ids |-> 0]
  /\ runs = [r \in Runs |-> IdleRun]
  /\ overlaps = 0
  /\ vault = FreshVault
  /\ issued = 1
  /\ rq = NoCall
  /\ svc = 1
  /\ bk = NoBackoff
  /\ au = NoAuth
  /\ vt = NoVault
  /\ ck = NoCheckpoint
  /\ tk = NoRefresh
  /\ cred = NoReset
  /\ cb = NoCallback
  /\ fm = NoFetch
  /\ sched = NoJob
  /\ \E b \in BOOLEAN : duo = [NoDuo EXCEPT !.rotates = b]
  /\ tj = NoTweetJobs
  /\ pace = NoPacing

DuoNext ==
  \/ \E c \in Callers, why \in {"expired", "401"} : DuoLoad(c, why)
  \/ \E c \in Callers : DuoRefresh(c)
  \/ \E c \in Callers : DuoSave(c)

DuoSpec == DuoInit /\ [][DuoNext]_vars

----------------------------------------------------------------------------
(* scheduleTweets / stopAllScheduledTweets (src/jobs/tweet.job.ts).  tj.map   *)
(* is scheduledJobs (slot -> task, 0: no entry), tj.active the node-cron      *)
(* tasks created and not stopped, as [id, slot]; tj.pc[c] is the position of  *)
(* call c of scheduleTweets, cut at its await of tokenGuard; tj.latest is the *)
(* call started last and tj.guard what tokenGuard returned to it.             *)

\* calls of scheduleTweets and stopAllScheduledTweets
MaxSchedules == 3
\* times the tokens file appears or disappears
MaxFlips == 1

ScheduleCalls == {1, 2}

tjRest == <<reqVars, bk, au, vt, ck, tk, cred, cb, fm, sched, duo, pace>>

\* stopAllScheduledTweets on the map m and the tasks a: every task in the map
\* is stopped and its entry deleted
StoppedTasks(m, a) == {j \in a : m[j.slot] # j.id}

\* the for-loop of scheduleTweets over the slots, from task number n: one new
\* task per slot, scheduledJobs.set(time, job)
RECURSIVE ScheduleAll(_, _, _, _)
ScheduleAll(S, m, a, n) ==
  IF S = {} THEN [map |-> m, active |-> a, made |-> n]
  ELSE LET t == CHOOSE x \in S : TRUE
       IN ScheduleAll(S \ {t}, [m EXCEPT ![t] = n + 1],
                      a \cup {[id |-> n + 1, slot |-> t]}, n + 1)

\* scheduleTweets() up to its await: stopAllScheduledTweets(), then tokenGuard
ScheduleBegin(c) ==
  /\ tj.pc[c] = "idle"
  /\ \A d \in ScheduleCalls : d < c => tj.pc[d] # "idle"
  /\ tj.calls < MaxSchedules
  /\ tj' = [tj EXCEPT !.active = StoppedTasks(tj.map, tj.active),
                      !.map = [t \in Slots |-> 0],
                      !.pc[c] = "guard", !.latest = c, !.guard = "pending",
                      !.calls = @ + 1]
  /\ UNCHANGED <<now, ingRest, tjRest>>

\* tokenGuard settles for call c: false ends the call; true goes on to the
\* loop that creates and records one task per slot
ScheduleResume(c) ==
  /\ tj.pc[c] = "guard"
  /\ LET r == ScheduleAll(Slots, tj.map, tj.active, tj.made)
         g == IF tj.latest = c THEN (IF tj.tokensOk THEN "ok" ELSE "failed") ELSE tj.guard
     IN IF tj.tokensOk
        THEN tj' = [tj EXCEPT !.map = r.map, !.active = r.active, !.made = r.made,
                              !.pc[c] = "idle", !.guard = g]
        ELSE tj' = [tj EXCEPT !.pc[c] = "idle", !.guard = g]
  /\ UNCHANGED <<now, ingRest, tjRest>>

\* stopAllScheduledTweets() called on its own
StopAllScheduledTweets ==
  /\ tj.calls < MaxSchedules
  /\ tj.map # [t \in Slots |-> 0]
  /\ tj' = [tj EXCEPT !.active = StoppedTasks(tj.map, tj.active),
                      !.map = [t \in Slots |-> 0], !.calls = @ + 1]
  /\ UNCHANGED <<now, ingRest, tjRest>>

\* the tokens file is removed, or written again
TokensFlip ==
  /\ tj.flips < MaxFlips
  /\ tj' = [tj EXCEPT !.tokensOk = ~@, !.flips = @ + 1]
  /\ UNCHANGED <<now, ingRest, tjRest>>

TweetInit ==
  /\ rev = 1
  /\ now = StartMs
  /\ file = EmptyState
  /\ isRunning = FALSE
  /\ resp = "none"
  /\ mentions = [m \in Ids |-> "none"]
  /\ replies = [m \in Ids |-> 0]
  /\ runs = [r \in Runs |-> IdleRun]
  /\ overlaps = 0
  /\ vault = FreshVault
  /\ issued = 1
  /\ rq = NoCall
  /\ svc = 1
  /\ bk = NoBackoff
  /\ au = NoAuth
  /\ vt = NoVault
  /\ ck = NoCheckpoint
  /\ tk = NoRefresh
  /\ cred = NoReset
  /\ cb = NoCallback
  /\ fm = NoFetch
  /\ sched = NoJob
  /\ duo = NoDuo
  /\ \E b \in BOOLEAN : tj = [NoTweetJobs EXCEPT !.tokensOk = b]
  /\ pace = NoPacing

TweetNext ==
  \/ \E c \in ScheduleCalls : ScheduleBegin(c)
  \/ \E c \in ScheduleCalls : ScheduleResume(c)
  \/ StopAllScheduledTweets
  \/ TokensFlip

TweetSpec == TweetInit /\ [][TweetNext]_vars

----------------------------------------------------------------------------
(* The manual runner of POST /run (src/routes/mention.route.ts) under fair    *)
(* scheduling: every request of a cycle in flight is answered, with success,  *)
(* a 429 or another error, and every settled promise reaches the runner's     *)
(* finally block.  Cycles are started by POST /run only.                      *)

RunnerStart == Quiet /\ PostRunStart /\ UNCHANGED <<reqVars, aloneVars>>

RunnerBusy == Quiet /\ PostRunBusy /\ UNCHANGED <<reqVars, aloneVars>>

\* the request the cycle is waiting on is answered
RunnerAnswer ==
  \E r \in Runs :
    /\ \/ SelfIdOk(r)
       \/ SelfIdFail(r, "429", NoHdr)
       \/ SelfIdFail(r, "err", NoHdr)
       \/ FetchOk(r)
       \/ FetchFail(r, "429", NoHdr)
       \/ FetchFail(r, "err", NoHdr)
       \/ ReplyOk(r)
       \/ Reply429(r, NoHdr)
       \/ ReplyErr(r)
    /\ UNCHANGED <<reqVars, aloneVars>>

RunnerSettle == \E r \in Runs : Settle(r) /\ UNCHANGED <<reqVars, aloneVars>>

RunnerNewMention ==
  Quiet /\ (\E a \in {SelfId, "other"} : NewMention(a)) /\ UNCHANGED <<reqVars, aloneVars>>

RunnerTick == Quiet /\ Tick /\ UNCHANGED <<reqVars, aloneVars>>

RunnerNext ==
  \/ RunnerStart
  \/ RunnerBusy
  \/ RunnerAnswer
  \/ RunnerSettle
  \/ RunnerNewMention
  \/ RunnerTick

RunnerSpec ==
  PoisonInit /\ [][RunnerNext]_vars /\ WF_vars(RunnerAnswer) /\ WF_vars(RunnerSettle)

----------------------------------------------------------------------------
(* Pacing of POST /2/tweets in the pacing-aware client (src/unnamed/part_006): *)
(* postTweet and postReply, cut at the awaits of ensurePacing and of the       *)
(* request.  pace.sends keeps every POST sent: the time it left at and how it  *)
(* was answered.  rateLimitedUntil stays null here.                            *)

MIN_GAP_MS == 120000

\* POSTs sent
MaxPosts == 3

paceRest == <<reqVars, bk, au, vt, ck, tk, cred, cb, fm, sched, duo, tj>>

\* instants of the clock
PaceTimes == {StartMs + k * (MIN_GAP_MS \div 2) : k \in 0 .. 4}

\* the request of caller c leaves at time t
Sent(c, t) ==
  [pace EXCEPT !.sends = Append(@, [at |-> t, by |-> c, res |-> "pending"]),
               !.call[c] = [pc |-> "posting", wake |-> 0, k |-> Len(pace.sends) + 1]]

\* postTweet / postReply called: ensurePacing reads the clock and lastPostAt
\* and either sleeps for the rest of the gap or returns, and the POST leaves
PaceEnter(c) ==
  /\ pace.call[c].pc = "idle"
  /\ Len(pace.sends) + Cardinality({d \in Callers : pace.call[d].pc = "sleep"}) < MaxPosts
  /\ LET gap == now - pace.lastPostAt
     IN IF gap < MIN_GAP_MS
        THEN pace' = [pace EXCEPT !.call[c] = [pc |-> "sleep", wake |-> now + (MIN_GAP_MS - gap), k |-> 0]]
        ELSE pace' = Sent(c, now)
  /\ UNCHANGED <<now, ingRest, paceRest>>

\* the sleep of ensurePacing is over: the POST leaves
PaceWake(c) ==
  /\ pace.call[c].pc = "sleep"
  /\ now >= pace.call[c].wake
  /\ pace' = Sent(c, now)
  /\ UNCHANGED <<now, ingRest, paceRest>>

\* the POST resolved: lastPostAt = Date.now()
PaceOk(c) ==
  /\ pace.call[c].pc = "posting"
  /\ pace' = [pace EXCEPT !.lastPostAt = now,
                          !.sends[pace.call[c].k].res = "ok",
                          !.call[c] = [pc |-> "idle", wake |-> 0, k |-> 0]]
  /\ UNCHANGED <<now, ingRest, paceRest>>

\* the POST rejected: the caller throws, lastPostAt stays
PaceFail(c) ==
  /\ pace.call[c].pc = "posting"
  /\ pace' = [pace EXCEPT !.sends[pace.call[c].k].res = "failed",
                          !.call[c] = [pc |-> "idle", wake |-> 0, k |-> 0]]
  /\ UNCHANGED <<now, ingRest, paceRest>>

\* the clock moves to a later instant
PaceTick(t) ==
  /\ t > now
  /\ now' = t
  /\ UNCHANGED <<ingRest, paceRest, pace>>

PaceInit ==
  /\ rev = 1
  /\ now = StartMs
  /\ file = EmptyState
  /\ isRunning = FALSE
  /\ resp = "none"
  /\ mentions = [m \in Ids |-> "none"]
  /\ replies = [m \in Ids |-> 0]
  /\ runs = [r \in Runs |-> IdleRun]
  /\ overlaps = 0
  /\ vault = FreshVault
  /\ issued = 1
  /\ rq = NoCall
  /\ svc = 1
  /\ bk = NoBackoff
  /\ au = NoAuth
  /\ vt = NoVault
  /\ ck = NoCheckpoint
  /\ tk = NoRefresh
  /\ cred = NoReset
  /\ cb = NoCallback
  /\ fm = NoFetch
  /\ sched = NoJob
  /\ duo = NoDuo
  /\ tj = NoTweetJobs
  /\ pace = NoPacing

PaceNext ==
  \/ \E c \in Callers : PaceEnter(c)
  \/ \E c \in Callers : PaceWake(c)
  \/ \E c \in Callers : PaceOk(c)
  \/ \E c \in Callers : PaceFail(c)
  \/ \E t \in PaceTimes : PaceTick(t)

PaceSpec == PaceInit /\ [][PaceNext]_vars

----------------------------------------------------------------------------
(* Properties *)

\* C1: no mention id ever receives more than one successful postReply,
\* whatever the interleaving of cron ticks and manual triggers.
C1_NoDoubleReply == \A m \in Ids : replies[m] <= 1

\* C2: after a cycle that ran on its own, the persisted sinceId is not below
\* the value the cycle started from, and if it changed it is the id of the
\* last batch item that was replied to successfully or passed over as
\* self-authored (never an item whose reply failed or was not attempted).
C2_CheckpointOnlyPastProcessed ==
  \A r \in Runs :
    (runs[r].pc = "returned" /\ runs[r].solo) =>
      /\ file.sinceId >= runs[r].since0
      /\ file.sinceId # runs[r].since0 =>
           (runs[r].good # 0 /\ file.sinceId = runs[r].good)

\* C3: when the first k replies of a batch succeeded and the next one is
\* answered 429, the cycle stops, the persisted sinceId is the id of the k-th
\* item (the value the cycle started from when k = 0), never the id of the
\* rate-limited item, and the report says handled = k.
C3_RateLimitedItemNotSkipped ==
  \A r \in Runs :
    LET R == runs[r] IN
    (/\ R.pc = "returned" /\ R.solo
     /\ R.report.skipped = "rate_limited" /\ R.i >= 1
     /\ R.handled = R.i - 1) =>
      /\ file.sinceId = (IF R.i = 1 THEN R.since0 ELSE R.batch[R.i - 1])
      /\ file.sinceId # R.batch[R.i]
      /\ R.report.handled = R.i - 1

\* C4: at most one runMentionsOnce cycle is executing at any moment, whether
\* cron-started or manual.
C4_SingleFlight == Cardinality({r \in Runs : InFlight(r)}) <= 1

\* C5: a POST /run received while a cycle is in flight is answered
\* runner_busy and starts nothing: so whenever POST /run answers "started",
\* the cycle it started is the only one there is.
C5_TriggerWhileInFlightIsBusy ==
  resp = "started" =>
    /\ isRunning
    /\ Cardinality({r \in Runs : runs[r].pc # "idle"}) = 1

\* C6: an invocation of runMentionsOnce (cron or manual) made while the
\* persisted nextAllowedAt is later than the current time returns at once,
\* without a network call and without touching the checkpoint or the remote,
\* reporting handled = 0, the remaining wait and nextAllowedAt.
C6_BackoffNoNetwork ==
  [][\A r \in Runs :
       (runs[r].pc = "idle" /\ runs'[r].pc # "idle" /\ file.nextAllowedAt > now) =>
         /\ runs'[r].pc = "returned"
         /\ ~runs'[r].net
         /\ runs'[r].report =
              Report(0, file.sinceId, "backoff_active", file.nextAllowedAt, file.nextAllowedAt - now)
         /\ file' = file /\ replies' = replies]_vars

\* C6 witness: a manual invocation has returned its backoff report, with a
\* positive remaining wait, and has made no network call
C6_Witness ==
  \E r \in Runs :
    /\ runs[r].pc = "returned" /\ runs[r].manual /\ ~runs[r].net
    /\ runs[r].report.skipped = "backoff_active"
    /\ runs[r].report.waitMs > 0
    /\ runs[r].report.nextAllowedAt = file.nextAllowedAt

\* C7: the nextAllowedAt persisted by a rate-limited cycle is strictly later
\* than the time it is written at, for every combination of the Retry-After
\* and x-rate-limit-reset headers, and is now + Retry-After when that header
\* is present.
C7_BackoffDeadlineInFuture ==
  \A r \in Runs :
    (runs[r].pc = "returned" /\ runs[r].report.skipped = "rate_limited") =>
      /\ file.nextAllowedAt > now
      /\ runs[r].hdr.ra # NoHeader => file.nextAllowedAt = now + runs[r].hdr.ra * 1000

\* the ids of S that have fewer than n smaller ids in S
Smallest(S, n) == {x \in S : Cardinality({y \in S : y < x}) < n}

\* C8: a cycle calls postReply only for items among the
\* MAX_REPLIES_PER_CYCLE numerically smallest fetched ids, in ascending
\* numeric order, and when it returns every fetched item outside that prefix
\* has an id above the persisted sinceId.
C8_BatchIsSmallestPrefix ==
  \A r \in Runs :
    LET R == runs[r] IN
    /\ \A k \in 1 .. Len(R.attempted) :
         /\ R.attempted[k] \in Smallest(R.fetched, MAX_REPLIES_PER_CYCLE)
         /\ \A j \in 1 .. (k - 1) : R.attempted[j] < R.attempted[k]
    /\ (R.pc = "returned" /\ R.fetched # {}) =>
         \A x \in R.fetched \ Smallest(R.fetched, MAX_REPLIES_PER_CYCLE) : x > file.sinceId

\* C8 witness: three mentions fetched, the two smallest attempted in order,
\* the checkpoint on the second, the third left for the next cycle
C8_Witness ==
  \E r \in Runs :
    /\ runs[r].pc = "returned"
    /\ Cardinality(runs[r].fetched) = 3
    /\ Len(runs[r].attempted) = 2
    /\ runs[r].attempted[1] < runs[r].attempted[2]
    /\ file.sinceId = runs[r].attempted[2]
    /\ \E x \in runs[r].fetched : x > file.sinceId

\* C9: every mention by another user is eventually replied to, and one whose
\* reply was rate-limited is never permanently skipped.  A mention at or below
\* the persisted sinceId is never fetched again once no cycle holds an older
\* copy of the state, so the claim needs: whenever no cycle is in flight, every
\* posted mention by another user that has no successful reply is still above
\* the persisted sinceId.
C9_UnrepliedStaysFetchable ==
  (\A r \in Runs : runs[r].pc = "idle") =>
    \A m \in Ids :
      (mentions[m] \notin {"none", SelfId} /\ replies[m] = 0) => m > file.sinceId

\* the api events of the log L after position i
ApiAfter(L, i) == {j \in (i + 1) .. Len(L) : L[j].e = "api"}
\* the refreshAccessToken calls of the log L after position i
RefreshAfter(L, i) == {j \in (i + 1) .. Len(L) : L[j].e = "refresh"}

\* C10: within one authedRequest call, after a 401 answer to the API request
\* there is exactly one refreshAccessToken call; every later send of the
\* request carries the refreshed access token, which saveTokens has written
\* to the vault before; the request is sent again once (a second time only to
\* retry a 429 answer, within the retry budget of the re-issue); and a 401
\* answer to the re-issued request ends the call with that error, with no
\* refresh and no send after it.
C10_Refresh401Once ==
  LET L == rq.log IN
  \A i \in 1 .. Len(L) :
    (L[i].e = "api" /\ L[i].ph = 1 /\ L[i].status = 401) =>
      /\ Cardinality(RefreshAfter(L, i)) <= 1
      /\ rq.pc \in {"c_save", "request", "done"} => Cardinality(RefreshAfter(L, i)) = 1
      /\ \A j \in ApiAfter(L, i) :
           /\ L[j].tok # L[i].tok
           /\ L[j].tok = vault.access_token
           /\ \E f \in RefreshAfter(L, i), k \in (i + 1) .. (j - 1) :
                /\ f < k /\ L[f].status = 200
                /\ L[k].e = "save" /\ L[k].tok = L[j].tok
           /\ L[j].status # 429 => (j = Len(L) /\ rq.pc = "done")
           /\ L[j].status = 401 => rq.result = "e401"
      /\ Cardinality(ApiAfter(L, i)) <= 1 + REISSUE_RETRIES
      /\ \A j \in ApiAfter(L, i), k \in ApiAfter(L, i) : j < k => L[j].status = 429

\* C10 witness: the call has ended with the 401 of the re-issued request,
\* after the 401 of the first request, one refresh and the save
C10_Witness ==
  /\ rq.pc = "done" /\ rq.result = "e401"
  /\ Len(rq.log) = 4
  /\ rq.log[1].e = "api" /\ rq.log[1].ph = 1 /\ rq.log[1].status = 401
  /\ rq.log[2].e = "refresh" /\ rq.log[2].status = 200
  /\ rq.log[3].e = "save" /\ rq.log[3].tok = vault.access_token
  /\ rq.log[4].e = "api" /\ rq.log[4].ph = 2 /\ rq.log[4].status = 401
  /\ rq.log[4].tok = rq.log[3].tok

\* C11: when the token endpoint rejects the refresh token, with whatever
\* status, the call ends there: the rejected refreshAccessToken call is the
\* last network call of the authedRequest call (no second refresh, no API
\* request after it) and the call has ended with an error.
C11_RefreshRejectionTerminal ==
  \A i \in 1 .. Len(rq.log) :
    (rq.log[i].e = "refresh" /\ rq.log[i].status # 200) =>
      (i = Len(rq.log) /\ rq.pc = "done" /\ rq.result # "ok")

\* the positions of the log L that hold an event e of phase ph
EventsOf(L, e, ph) == {i \in 1 .. Len(L) : L[i].e = e /\ L[i].ph = ph}
\* the positions of the log L that hold an event e
AllEvents(L, e) == {i \in 1 .. Len(L) : L[i].e = e}

\* C12: the first requestWithRetry of a call sends the request at most 3
\* times and sleeps at most twice, each sleep right after a 429 answer; a
\* third 429 ends the call with that error; and the whole authedRequest call
\* makes a bounded number of HTTP attempts (at most 5), sleeps (at most 3) and
\* network calls and saves altogether, whatever the remote answers.
C12_BoundedAttempts ==
  LET L == rq.log IN
  /\ Cardinality(EventsOf(L, "api", 1)) <= 3
  /\ Cardinality(EventsOf(L, "sleep", 1)) <= 2
  /\ \A i \in AllEvents(L, "sleep") :
       i > 1 /\ L[i - 1].e = "api" /\ L[i - 1].status = 429
  /\ Cardinality({i \in EventsOf(L, "api", 1) : L[i].status = 429}) = 3 =>
       (rq.pc = "done" /\ rq.result = "e429")
  /\ Cardinality(AllEvents(L, "api")) <= 5
  /\ Cardinality(AllEvents(L, "sleep")) <= 3
  /\ Len(L) <= 12

\* C12 witness: three 429 answers in a row, a sleep after the first two, and
\* the call has ended with the 429
C12_Witness ==
  /\ rq.pc = "done" /\ rq.result = "e429"
  /\ Len(rq.log) = 5
  /\ \A i \in {1, 3, 5} : rq.log[i].e = "api" /\ rq.log[i].status = 429
  /\ \A i \in {2, 4} : rq.log[i].e = "sleep"

\* C13: an answer to the API request with an error status other than 401 and
\* 429 ends the call with that error at once: it is the last entry of the
\* call's record (no sleep, no refresh, no further send follows it).
C13_OtherErrorsSurfaceAtOnce ==
  \A i \in AllEvents(rq.log, "api") :
    rq.log[i].status \notin {200, 401, 429} =>
      /\ i = Len(rq.log)
      /\ rq.pc = "done"
      /\ rq.result = ErrOf(rq.log[i].status)

\* C13 witness: the first and only send of a call was answered 403, and the
\* call has ended with that error
C13_Witness ==
  /\ rq.pc = "done" /\ rq.result = "e403"
  /\ Len(rq.log) = 1
  /\ rq.log[1].e = "api" /\ rq.log[1].status = 403

\* the second of time t is at or past the second of issue + ttl - 120 s of
\* the bundle v (the comparison in whole seconds)
PastSkewInSeconds(v, t) ==
  (t \div 1000) >= (v.created_at \div 1000) + v.expires_in - 120

\* C14 (as stated): getAccessToken returns the vaulted token without a network
\* call when the time is before issue time + ttl - 120 s, otherwise it
\* refreshes and saves before returning; and no API request is ever sent with
\* a token that is past its expiry minus the skew at the time of the send.
C14_NoSendPastSkew ==
  LET L == rq.log IN
  (rq.n > 0 /\ rq.v0.refresh_token # 0) =>
    /\ rq.t0 < SkewLimit(rq.v0) =>
         /\ rq.pc \notin {"gat_refresh", "gat_save"}
         /\ EventsOf(L, "refresh", 0) = {}
    /\ rq.t0 >= SkewLimit(rq.v0) =>
         \A i \in EventsOf(L, "api", 1) : L[i].tok # rq.v0.access_token
    /\ \A i \in AllEvents(L, "api") : L[i].at < L[i].limit

\* C14 (amended): getAccessToken compares in whole seconds, once, when the
\* call starts.  If the second of the call is before the second of issue +
\* ttl - 120 s, it makes no network call and the first send of the request
\* carries the vaulted token, at that same time.  Otherwise the call first
\* calls refreshAccessToken, and every send of the first requestWithRetry
\* carries the refreshed token, which was saved to the vault before.
C14_ExpiryCheckedAtCallStart ==
  LET L == rq.log IN
  (rq.n > 0 /\ rq.v0.refresh_token # 0) =>
    /\ ~PastSkewInSeconds(rq.v0, rq.t0) =>
         /\ rq.pc \notin {"gat_refresh", "gat_save"}
         /\ EventsOf(L, "refresh", 0) = {}
         /\ L # <<>> =>
              /\ L[1].e = "api" /\ L[1].tok = rq.v0.access_token
              /\ L[1].at = rq.t0
              /\ ~PastSkewInSeconds(rq.v0, L[1].at)
    /\ PastSkewInSeconds(rq.v0, rq.t0) =>
         /\ L # <<>> => (L[1].e = "refresh" /\ L[1].ph = 0)
         /\ \A i \in EventsOf(L, "api", 1) :
              /\ L[i].tok # rq.v0.access_token
              /\ \E f \in EventsOf(L, "refresh", 0), k \in EventsOf(L, "save", 0) :
                   /\ f < k /\ k < i
                   /\ L[f].status = 200
                   /\ L[k].tok = L[i].tok

\* C14 witness: the vaulted bundle was past its expiry minus the skew, the
\* call refreshed, saved, and the request sent with the new token succeeded
C14_Witness ==
  /\ rq.pc = "done" /\ rq.result = "ok"
  /\ PastSkewInSeconds(rq.v0, rq.t0)
  /\ Len(rq.log) = 3
  /\ rq.log[1].e = "refresh" /\ rq.log[1].status = 200
  /\ rq.log[2].e = "save" /\ rq.log[2].tok = vault.access_token
  /\ rq.log[3].e = "api" /\ rq.log[3].tok = rq.log[2].tok
  /\ rq.log[3].tok # rq.v0.access_token

\* C15 (as stated): the wait is the value the headers ask for plus a jitter
\* in [0, 2000): Retry-After seconds if present; otherwise x-rate-limit-reset
\* minus the current time when that is positive; otherwise 60 s.
C15_WaitFromHeaders ==
  LET asked == IF bk.h.ra # NoHeader THEN bk.h.ra * 1000
               ELSE IF bk.h.reset # NoHeader /\ bk.h.reset * 1000 - bk.t > 0
                    THEN bk.h.reset * 1000 - bk.t
                    ELSE 60000
  IN bk.n > 0 => (bk.wait >= asked /\ bk.wait < asked + 2000)

\* C15 (amended): the value taken from x-rate-limit-reset is the reset time
\* minus the current time plus a 500 ms cushion, and it is taken whenever
\* that sum is positive (so also when the reset time is up to 499 ms in the
\* past); with that, the wait is the value plus a jitter in [0, 2000), and it
\* is never shorter than a Retry-After or a time to a future reset.
C15_WaitFromHeadersWithCushion ==
  LET cushioned == bk.h.reset * 1000 - bk.t + 500
      value == IF bk.h.ra # NoHeader THEN bk.h.ra * 1000
               ELSE IF bk.h.reset # NoHeader /\ cushioned > 0 THEN cushioned
               ELSE 60000
  IN bk.n > 0 =>
       /\ bk.wait = value + bk.j
       /\ bk.wait >= value /\ bk.wait < value + 2000
       /\ bk.h.ra # NoHeader => bk.wait >= bk.h.ra * 1000
       /\ (bk.h.ra = NoHeader /\ bk.h.reset # NoHeader /\ bk.h.reset * 1000 > bk.t) =>
            bk.wait >= bk.h.reset * 1000 - bk.t

\* C15 witness: no Retry-After, a reset time 200 ms in the past: the wait is
\* 300 ms plus the greatest jitter, not the 60 s default
C15_Witness ==
  /\ bk.n > 0
  /\ bk.h.ra = NoHeader /\ bk.h.reset # NoHeader
  /\ bk.h.reset * 1000 - bk.t = 0 - 200
  /\ bk.j = 1999
  /\ bk.wait = 300 + 1999

\* C16: a state value issued by getAuthUrl and presented to handleCallback
\* more than 10 minutes after its issuance is rejected (no token request is
\* sent), and a rejection for expiry happens only after more than 10 minutes.
C16_StateExpiresAfterTtl ==
  \A u \in au.urls :
    au.out.state = u.state =>
      /\ (au.out.at - u.t > STATE_TTL_MS => ~au.out.sent)
      /\ (au.out.res = "expired" => au.out.at - u.t > STATE_TTL_MS)

\* the first two pieces of a state value are a payload and its HMAC under
\* the signing key
SignedPrefix(st) ==
  /\ Len(st) >= 2
  /\ st[1].kind = "p"
  /\ st[2] = Seg("s", st[1].v, st[1].cv, st[1].t, SigningKey)

\* C17: in the signed-state revision, handleCallback sends a request to the
\* token endpoint only for a state value that is well formed (a payload, a
\* dot, a signature, nothing else) and whose signature is the HMAC of its
\* payload under the current signing key.
C17_BadStateSendsNothing ==
  (au.arev = 2 /\ au.out.sent) => (Len(au.out.state) = 2 /\ SignedPrefix(au.out.state))

\* C18: a state value issued by getAuthUrl and presented within its TTL is
\* accepted, whatever happened to the process in between, and the verifier
\* sent to the token endpoint is the one whose challenge was in the URL.
C18_NoServerSideSession ==
  \A u \in au.urls :
    (au.out.state = u.state /\ au.out.at - u.t <= STATE_TTL_MS) =>
      (au.out.sent /\ codeChallengeS256(au.out.cv) = u.challenge)

\* C19 (as stated): loadTokens(p) after saveTokens(bundle, p) returns the
\* bundle that was saved, field for field, for every bundle and passphrase.
C19_RoundTrip ==
  (vt.saved.done /\ vt.out.res # "none" /\ vt.out.pass = vt.saved.pass) =>
    (vt.out.res = "bundle" /\ vt.out.bundle = vt.saved.bundle)

\* C19 (amended): the round trip holds for every bundle and passphrase, except
\* that the vault which stores the two tokens only refuses, on load, a pair
\* with an empty token, with its decryption error.
C19_RoundTripOfNonEmptyTokens ==
  (vt.saved.done /\ vt.out.res # "none" /\ vt.out.pass = vt.saved.pass) =>
    IF vt.erev = 1 /\ "" \in {vt.saved.bundle.access_token, vt.saved.bundle.refresh_token}
    THEN vt.out.res = "decryption_failed"
    ELSE vt.out.res = "bundle" /\ vt.out.bundle = vt.saved.bundle

\* C19: a bundle with all its fields was saved and then loaded with the same
\* passphrase
C19_Witness ==
  /\ vt.saved.done
  /\ vt.saved.bundle.expires_in = DEFAULT_TTL
  /\ vt.saved.bundle.token_type = "bearer"
  /\ vt.out.res = "bundle"
  /\ vt.out.pass = vt.saved.pass

\* C20: loadTokens returns a bundle only if the record in the file was
\* decrypted with the passphrase supplied, and loading a saved record with
\* another passphrase fails with the decryption error.
C20_NoBundleWithoutDecryption ==
  /\ vt.out.res = "bundle" =>
       (vt.file.kind = "blob" /\ vt.file.ct.pass = vt.out.pass)
  /\ (vt.saved.done /\ vt.out.res # "none" /\ vt.out.pass # vt.saved.pass) =>
       vt.out.res = "decryption_failed"

\* C21: loadTokens on a missing file fails as not found, and on
\* an existing file that it cannot decrypt or parse it fails with the
\* decryption error.
C21_TwoFailureKinds ==
  vt.out.res # "none" =>
    /\ (vt.file.kind = "none" => vt.out.res = "not_found")
    /\ (vt.file.kind # "none" /\ vt.out.res # "bundle" => vt.out.res = "decryption_failed")

\* C23: when the process has stopped and started again, loadState reads
\* either the checkpoint that was in the file before the last saveState began
\* or the one that saveState was writing, so a sinceId that was in the file
\* is not read back as empty.
C23_CrashLeavesCheckpointWhole ==
  ck.loaded.done =>
    /\ ck.loaded.s \in {ck.prev, ck.next}
    /\ (ck.prev.sinceId # 0 => ck.loaded.s.sinceId # 0)

\* C22: at every point of a refresh, a failure of saveTokens and a stop of
\* the process included, the tokens file holds one complete record, and as
\* long as the record is not the new bundle it is the prior one and the
\* remote still accepts its refresh token.
C22_BundleReplacedAtomically ==
  /\ ParsesAsRecord(tk.disk)
  /\ tk.disk[2].body \in {tk.prior, tk.fresh}
  /\ tk.disk[2].body.refresh \in tk.accepted

\* C24: the first cycle that runs after the tokens file was deleted and the
\* bot was authorized again starts from an empty checkpoint: it loads neither
\* the previous sinceId nor the previously cached self user id.
C24_ResetInvalidatesCheckpoint ==
  cred.first.done => (cred.first.sinceId = 0 /\ cred.first.me = NoMe)

\* C25: once a cycle has failed because the token endpoint rejected the
\* refresh token, cron starts no cycle that goes to the network until the
\* bot is authorized again.
C25_NoCycleOnDeadRefreshToken == ~cred.contacted

\* C26: when GET /callback answers with the success confirmation, the bundle
\* the token endpoint has just issued is in the vault, and no answer of the
\* route carries an access or refresh token.
C26_VaultedBeforeSuccess ==
  /\ cb.resp.success => (cb.issued # 0 /\ cb.vaulted = cb.issued)
  /\ cb.resp.tokens = {}

\* C27: when a cycle has returned, every batch item whose reply failed in it
\* with an error other than a rate limit (attempted, never replied to, and
\* not the item a rate limit stopped the cycle at) is above the persisted
\* sinceId, so the next fetch returns it again.
C27_FailedItemAboveCheckpoint ==
  \A r \in Runs :
    (runs[r].pc = "returned" /\ runs[r].report.skipped \in {"none", "rate_limited"}) =>
      \A k \in 1 .. Len(runs[r].attempted) :
        (/\ replies[runs[r].attempted[k]] = 0
         /\ (runs[r].report.skipped = "none" \/ k < Len(runs[r].attempted)))
          => file.sinceId < runs[r].attempted[k]

\* C28: under fair scheduling, every mention newer than the one whose reply
\* always fails, and not authored by the bot, is eventually replied to.
C28_PoisonDoesNotBlock ==
  \A m \in Ids : (m > PoisonId /\ mentions[m] = "other") ~> (replies[m] > 0)

\* C29: the persisted sinceId never decreases, whatever the interleaving of
\* cron-started and manual cycles: no write of the checkpoint file replaces a
\* sinceId by an older one.
C29_SinceIdNeverDecreases == [][file'.sinceId >= file.sinceId]_vars

\* C30: when getSelfUserId or fetchMentions is answered 429, the cycle returns
\* "rate_limited" with handled = 0 and no reply attempted, the file gets the
\* backoff deadline computed from the answer's headers and lastRunAt = now,
\* and the persisted sinceId and me stay as they were.
C30_FetchRateLimitPersistsBackoff ==
  [][\A r \in Runs :
       (/\ runs[r].pc \in {"selfid", "fetch"}
        /\ runs'[r].pc = "returned"
        /\ runs'[r].report.skipped = "rate_limited") =>
         /\ file'.nextAllowedAt = nextAllowedFromError(runs'[r].hdr, now)
         /\ file'.nextAllowedAt = runs'[r].report.nextAllowedAt
         /\ file'.nextAllowedAt >= now
         /\ file'.lastRunAt = now
         /\ file'.sinceId = file.sinceId
         /\ file'.me = file.me
         /\ runs'[r].report.lastId = file.sinceId
         /\ runs'[r].report.handled = 0
         /\ runs'[r].attempted = <<>>
         /\ replies' = replies]_vars

\* C30 (witness): a cycle has returned "rate_limited" from its fetch without
\* attempting a reply, while the file holds a sinceId another cycle wrote
\* after this one had loaded its state, and a backoff deadline in the future.
C30_Witness ==
  \E r \in Runs :
    /\ runs[r].pc = "returned"
    /\ runs[r].report.skipped = "rate_limited"
    /\ runs[r].attempted = <<>>
    /\ file.sinceId # 0
    /\ file.sinceId # runs[r].since0
    /\ file.nextAllowedAt > now
    /\ file.lastRunAt = now

\* C31: a mention authored by the bot itself is never handed to postReply (no
\* cycle attempts it, the remote never holds a reply to it), and when a cycle
\* has gone through its batch the persisted sinceId is at or past every
\* self-authored item of the batch, as it is past every item replied to.
C31_SelfAuthoredSkippedAndPassed ==
  /\ \A m \in Ids : mentions[m] = SelfId => replies[m] = 0
  /\ \A r \in Runs :
       /\ \A k \in 1 .. Len(runs[r].attempted) : mentions[runs[r].attempted[k]] # SelfId
       /\ (runs[r].pc = "returned" /\ runs[r].report.skipped = "none") =>
            \A k \in 1 .. Len(runs[r].batch) :
              (mentions[runs[r].batch[k]] = SelfId \/ runs[r].batch[k] = runs[r].good)
                => file.sinceId >= runs[r].batch[k]

\* C31 (witness): a cycle has returned after a batch holding a self-authored
\* item that it did not attempt, and the file's sinceId is that item's id.
C31_Witness ==
  \E r \in Runs :
    /\ runs[r].pc = "returned"
    /\ runs[r].report.skipped = "none"
    /\ \E k \in 1 .. Len(runs[r].batch) :
         /\ mentions[runs[r].batch[k]] = SelfId
         /\ file.sinceId = runs[r].batch[k]
         /\ replies[runs[r].batch[k]] = 0
         /\ \A j \in 1 .. Len(runs[r].attempted) : runs[r].attempted[j] # runs[r].batch[k]

\* C32 (as stated): a manual invocation made less than MANUAL_COOLDOWN_MS
\* after the persisted lastRunAt returns at once, without a network call,
\* with handled = 0 and the cooldown remainder; a cron invocation is never
\* turned away by the cooldown.
C32_CooldownRejectsManual ==
  [][\A r \in Runs :
       (runs[r].pc = "idle" /\ runs'[r].pc # "idle") =>
         /\ (runs'[r].manual /\ file.lastRunAt # 0 /\ now - file.lastRunAt < MANUAL_COOLDOWN_MS) =>
              /\ runs'[r].pc = "returned"
              /\ ~runs'[r].net
              /\ runs'[r].report =
                   Report(0, file.sinceId, "manual_cooldown", 0,
                          MANUAL_COOLDOWN_MS - (now - file.lastRunAt))
              /\ file' = file /\ replies' = replies
         /\ ~runs'[r].manual => runs'[r].report.skipped # "manual_cooldown"]_vars

\* C32 (amended): the same, for a manual invocation made while no persisted
\* backoff deadline lies in the future; the backoff check comes first and,
\* when it applies, the report carries the backoff wait instead.
C32_CooldownRejectsManualOutsideBackoff ==
  [][\A r \in Runs :
       (runs[r].pc = "idle" /\ runs'[r].pc # "idle") =>
         /\ (/\ runs'[r].manual
             /\ file.lastRunAt # 0 /\ now - file.lastRunAt < MANUAL_COOLDOWN_MS
             /\ ~(file.nextAllowedAt # 0 /\ now < file.nextAllowedAt)) =>
              /\ runs'[r].pc = "returned"
              /\ ~runs'[r].net
              /\ runs'[r].report =
                   Report(0, file.sinceId, "manual_cooldown", 0,
                          MANUAL_COOLDOWN_MS - (now - file.lastRunAt))
              /\ file' = file /\ replies' = replies
         /\ ~runs'[r].manual => runs'[r].report.skipped # "manual_cooldown"]_vars

\* C32 (witness): a manual invocation has been turned away by the cooldown
\* with a positive remainder and without a network call, and no backoff is
\* pending.
C32_Witness ==
  \E r \in Runs :
    /\ runs[r].pc = "returned" /\ runs[r].manual /\ ~runs[r].net
    /\ runs[r].report.skipped = "manual_cooldown"
    /\ runs[r].report.waitMs > 0
    /\ runs[r].report.handled = 0
    /\ file.lastRunAt # 0
    /\ ~(file.nextAllowedAt # 0 /\ now < file.nextAllowedAt)

\* C33: every cycle that got past the backoff and cooldown checks (it made a
\* network call) writes the file with lastRunAt = now in the step in which it
\* ends, whatever its outcome.
C33_LastRunAtWrittenAtCycleEnd ==
  [][\A r \in Runs :
       (InFlight(r) /\ runs'[r].pc = "returned") => file'.lastRunAt = now]_vars

\* C34: whenever a request can be served, GET /status reports running = true
\* exactly when a cycle is in flight, manual or cron-started.
C34_StatusRunningIffInFlight ==
  Quiet => (StatusRunning <=> \E r \in Runs : InFlight(r))

\* C35: a fetchMentions call requests at most MAX_PAGES pages; every page
\* before the last requested one carried a next_token and at least PAGE_SIZE
\* items, and the last one either lacks one of the two or is page MAX_PAGES;
\* the value returned holds exactly the items of the requested pages, in
\* ascending order of id.
C35_PaginationBoundedAndSorted ==
  /\ fm.pages <= MAX_PAGES
  /\ Len(fm.seen) <= MAX_PAGES
  /\ \A k \in 1 .. Len(fm.seen) - 1 : fm.seen[k].next /\ fm.seen[k].n >= PAGE_SIZE
  /\ fm.pc = "loop" =>
       /\ fm.pages < MAX_PAGES
       /\ \A k \in 1 .. Len(fm.seen) : fm.seen[k].next /\ fm.seen[k].n >= PAGE_SIZE
  /\ fm.pc = "done" =>
       /\ Len(fm.seen) = fm.pages
       /\ fm.pages >= 1
       /\ (fm.pages < MAX_PAGES =>
             (~fm.seen[fm.pages].next \/ fm.seen[fm.pages].n < PAGE_SIZE))
       /\ Len(fm.result) = Len(fm.out)
       /\ \A k \in 1 .. Len(fm.result) - 1 : fm.result[k] <= fm.result[k + 1]
       /\ \A x \in {fm.out[k] : k \in 1 .. Len(fm.out)} :
            Cardinality({k \in 1 .. Len(fm.out) : fm.out[k] = x})
              = Cardinality({k \in 1 .. Len(fm.result) : fm.result[k] = x})

\* C35 (witness): a call has returned after MAX_PAGES full pages that all
\* carried a next_token, with pages that were not in ascending order.
C35_Witness ==
  /\ fm.pc = "done"
  /\ fm.pages = MAX_PAGES
  /\ fm.seen[MAX_PAGES].next /\ fm.seen[MAX_PAGES].n >= PAGE_SIZE
  /\ fm.out # fm.result
  /\ Len(fm.result) >= MAX_PAGES * PAGE_SIZE

\* C36: a cron cycle starts only while the task job refers to is scheduled,
\* so none starts after stopMentionsJob; the stop leaves every cycle in
\* flight and the checkpoint file as they are; a startMentionsJob that finds
\* no job schedules one task, and at no time is more than one task active.
C36_StopEndsTicksOnly ==
  [][/\ \A r \in Runs :
          (runs[r].pc = "idle" /\ runs'[r].pc # "idle" /\ ~runs'[r].manual) =>
            (sched.job # 0 /\ sched.active = {sched.job})
     /\ (sched.job # 0 /\ sched'.job = 0) =>
          (sched'.active = {} /\ runs' = runs /\ file' = file)
     /\ (sched.job = 0 /\ sched'.job # 0) => sched'.active = {sched'.job}
     /\ Cardinality(sched'.active) <= 1]_vars

\* C36 (witness): the job has been stopped while a cycle was in flight, no
\* task is left, and that cycle has since gone through its batch, replied and
\* written the checkpoint.
C36_Witness ==
  /\ sched.job = 0 /\ sched.active = {} /\ sched.last = "stopped"
  /\ \E r \in sched.during :
       /\ runs[r].pc = "returned"
       /\ runs[r].report.skipped = "none"
       /\ runs[r].report.handled >= 1
       /\ file.sinceId = runs[r].report.lastId
       /\ file.lastRunAt = now

\* C37: once both callers have finished, the vault holds the bundle the token
\* endpoint issued last, and its refresh token is one the endpoint accepts.
C37_VaultHoldsNewestBundle ==
  (\A c \in Callers : duo.call[c].pc \in {"done", "threw"}) =>
    /\ duo.gen = duo.issuedN
    /\ duo.refresh \in duo.accepted

\* C38: every cron task that is still active is the one scheduledJobs records
\* for its slot, so no slot has two active tasks; and when no call of
\* scheduleTweets is in progress and tokenGuard failed on the latest one, no
\* task is active.
C38_ActiveJobsRecorded ==
  /\ \A j \in tj.active : tj.map[j.slot] = j.id
  /\ \A t \in Slots : Cardinality({j \in tj.active : j.slot = t}) <= 1
  /\ ((\A c \in ScheduleCalls : tj.pc[c] = "idle") /\ tj.guard = "failed") => tj.active = {}

\* C39: whenever the manual-run guard is set, it is cleared again later: the
\* cycle started by the accepted trigger settles, whatever its requests were
\* answered with, and the runner's finally block sets isRunning to false.
C39_GuardAlwaysReleased == isRunning ~> ~isRunning

\* C39 (witness): a manual trigger has been accepted after an earlier manual
\* cycle ran and released the guard.
C39_Witness ==
  /\ resp = "started"
  /\ isRunning
  /\ file.lastRunAt # 0
  /\ \E r \in Runs : runs[r].manual /\ runs[r].pc # "idle"

\* C40: every POST to /2/tweets leaves at least MIN_GAP_MS after each earlier
\* POST that succeeded, whichever callers sent the two.
C40_PostsAtLeastMinGapApart ==
  \A i \in 1 .. Len(pace.sends), j \in 1 .. Len(pace.sends) :
    (i < j /\ pace.sends[i].res = "ok") =>
      pace.sends[j].at - pace.sends[i].at >= MIN_GAP_MS

====
